---- MODULE Spec2Model ----
(***************************************************************************)
(* Model of the H2GREEN techno-economic calculators:                       *)
(*   - h2verde_tea_eho: simulate_eho, the lifetime-integrated LCOH model   *)
(*   - h2verde_tea:     simular, the simplified annual LCOH model          *)
(*   - sensibilidade_h2verde: the sensitivity routines that call simular   *)
(*     on clones of a base scenario                                        *)
(*                                                                         *)
(* Numbers.  The programs compute with Python floats.  The model computes  *)
(* with exact numbers: a number is a finite sum of terms q * E^k, where q  *)
(* is a non-zero rational and E stands for 10^12, so that the literals     *)
(* 1e-12 (= E^-1) and 1e-9 (= 1000 * E^-1) of the source are exact values  *)
(* of the model and not approximations.  A number is a sequence of terms   *)
(* <<k, n, d>> (value n/d * E^k, d > 0, gcd(n, d) = 1) with strictly       *)
(* decreasing k; zero is the empty sequence.  The representation is        *)
(* canonical, so that equality of numbers is equality of sequences.        *)
(* Rounding of floats is not modelled.  Orders are decided on the leading  *)
(* term, which is exact as long as the coefficients stay far below 10^12,  *)
(* as they do for the inputs enumerated here.                              *)
(***************************************************************************)
EXTENDS Integers, Sequences, FiniteSets, TLC

Abs(x) == IF x < 0 THEN -x ELSE x

RECURSIVE GCD(_, _)
GCD(a, b) == IF b = 0 THEN a ELSE GCD(b, a % b)

\* The term n/d * E^k in lowest terms (d > 0, n # 0).
Term(k, n, d) == LET g == GCD(Abs(n), d) IN <<k, n \div g, d \div g>>

\* The number n/d * E^k (d > 0).
QE(n, d, k) == IF n = 0 THEN << >> ELSE << Term(k, n, d) >>

\* The rational n/d and the integer n as numbers.
Q(n, d) == QE(n, d, 0)
I(n) == QE(n, 1, 0)

Zero == << >>

RECURSIVE NAdd(_, _)
NAdd(x, y) ==
    IF x = << >> THEN y
    ELSE IF y = << >> THEN x
    ELSE LET a == Head(x)
             b == Head(y)
         IN  IF a[1] > b[1] THEN << a >> \o NAdd(Tail(x), y)
             ELSE IF a[1] < b[1] THEN << b >> \o NAdd(x, Tail(y))
             ELSE LET g == GCD(a[3], b[3])
                      n == a[2] * (b[3] \div g) + b[2] * (a[3] \div g)
                      d == (a[3] \div g) * b[3]
                  IN  IF n = 0 THEN NAdd(Tail(x), Tail(y))
                      ELSE << Term(a[1], n, d) >> \o NAdd(Tail(x), Tail(y))

RECURSIVE NNeg(_)
NNeg(x) ==
    IF x = << >> THEN << >>
    ELSE << <<Head(x)[1], -Head(x)[2], Head(x)[3]>> >> \o NNeg(Tail(x))

NSub(x, y) == NAdd(x, NNeg(y))

\* The product of the terms a and b, cancelled before it is multiplied.
TermMul(a, b) ==
    LET g1 == GCD(Abs(a[2]), b[3])
        g2 == GCD(Abs(b[2]), a[3])
    IN  <<a[1] + b[1], (a[2] \div g1) * (b[2] \div g2),
          (a[3] \div g2) * (b[3] \div g1)>>

\* x times the single term t.
RECURSIVE NMulT(_, _)
NMulT(x, t) ==
    IF x = << >> THEN << >>
    ELSE << TermMul(Head(x), t) >> \o NMulT(Tail(x), t)

RECURSIVE NMul(_, _)
NMul(x, y) ==
    IF y = << >> THEN << >>
    ELSE NAdd(NMulT(x, Head(y)), NMul(x, Tail(y)))

\* -1, 0 or 1: the sign of the leading term.
Sign(x) == IF x = << >> THEN 0 ELSE IF Head(x)[2] < 0 THEN -1 ELSE 1

NLt(x, y) == Sign(NSub(x, y)) < 0
NLe(x, y) == Sign(NSub(x, y)) <= 0

\* Python's max(a, b) and min(a, b): the first argument unless the second
\* is strictly greater (smaller).
NMax(a, b) == IF NLt(a, b) THEN b ELSE a
NMin(a, b) == IF NLt(b, a) THEN b ELSE a

\* Whether y / x raises ZeroDivisionError.
IsZero(x) == x = << >>

\* x / y for y a single non-zero term (every divisor of the programs is
\* one for the inputs enumerated here; anything else is left undefined, so
\* that TLC stops rather than compute a wrong quotient).
NDiv(x, y) ==
    IF Len(y) = 1
    THEN LET t == Head(y)
             inv == IF t[2] > 0 THEN <<-t[1], t[3], t[2]>>
                    ELSE <<-t[1], -t[3], -t[2]>>
         IN  NMulT(x, inv)
    ELSE CHOOSE v \in {} : TRUE

\* x ** n for an integer n >= 0.
RECURSIVE NPow(_, _)
NPow(x, n) == IF n = 0 THEN I(1) ELSE NMul(x, NPow(x, n - 1))

\* The coefficient of E^0 of x, as <<n, d>>.
RECURSIVE Coef0(_)
Coef0(x) ==
    IF x = << >> THEN <<0, 1>>
    ELSE IF Head(x)[1] = 0 THEN <<Head(x)[2], Head(x)[3]>>
    ELSE Coef0(Tail(x))

\* The terms of x with exponent above (Hi) and below (Lo) zero.
Hi(x) == SelectSeq(x, LAMBDA t : t[1] > 0)
Lo(x) == SelectSeq(x, LAMBDA t : t[1] < 0)

\* Whether every term q * E^k (k >= 1) of x is an integer: 10^12 is a
\* multiple of q's denominator when 10^9 is.
Pow10 == 10^9
HiIntegral(x) == \A i \in 1..Len(Hi(x)) : Pow10 % Hi(x)[i][3] = 0

\* math.floor(x): the greatest integer not above x.
NFloor(x) ==
    IF HiIntegral(x)
    THEN LET q == Coef0(x)
             f == q[1] \div q[2]
             exact == q[1] % q[2] = 0
         IN  NAdd(Hi(x), I(IF exact /\ Sign(Lo(x)) < 0 THEN f - 1 ELSE f))
    ELSE CHOOSE v \in {} : TRUE

\* The literals 1e-12 and 1e-9 of the source.
Eps == QE(1, 1, -1)
Tol == QE(1000, 1, -1)


(***************************************************************************)
(* State.  pc is the position of the running call; s is the EHOScenario    *)
(* handed to simulate_eho and c the CenarioEntrada handed to simular; loc  *)
(* holds the local variables assigned so far (a function from their        *)
(* names); ret is << >> until the call returns and <<result>> afterwards. *)
(* A raised exception is a final pc named after it.                        *)
(***************************************************************************)
VARIABLES pc, s, c, loc, ret

vars == <<pc, s, c, loc, ret>>

\* No scenario, no locals.
None == << >>

(***************************************************************************)
(* h2verde_tea_eho: the functions                                          *)
(***************************************************************************)

\* crf raises ZeroDivisionError when (1 + i) ** n - 1 is zero.
crf_raises(i, n) ==
    /\ n > 0
    /\ ~IsZero(i)
    /\ IsZero(NSub(NPow(NAdd(I(1), i), n), I(1)))

\* The factor of an annuity paid at the start of each period.
crf_annuity_due(i, n) ==
    IF n <= 0 THEN I(1)
    ELSE IF IsZero(i) THEN NDiv(I(1), I(n))
    ELSE NDiv(NMul(i, NPow(NAdd(I(1), i), n - 1)),
              NSub(NPow(NAdd(I(1), i), n), I(1)))

crf(i, n) ==
    IF n <= 0 THEN I(1)
    ELSE IF IsZero(i) THEN NDiv(I(1), I(n))
    ELSE NDiv(NMul(i, NPow(NAdd(I(1), i), n)),
              NSub(NPow(NAdd(I(1), i), n), I(1)))

\* The count with the hours and the durability taken for each other.
stack_replacements_swapped(econ_years, op_hours_per_year, durability_h) ==
    NFloor(NDiv(NMul(I(econ_years), durability_h),
                NMax(op_hours_per_year, Eps)))

stack_replacements(econ_years, op_hours_per_year, durability_h) ==
    NFloor(NDiv(NMul(I(econ_years), op_hours_per_year),
                NMax(durability_h, Eps)))

capacity_kg_per_h(power_kw, avg_sec_kwh_per_kg) ==
    NDiv(power_kw, NMax(avg_sec_kwh_per_kg, Eps))

hydrogen_output_kg(op_hours_per_year, capacity_kg_h, econ_years) ==
    NMul(NMul(op_hours_per_year, capacity_kg_h), I(econ_years))

electricity_consumption_mwh(h2_output_kg, avg_sec_kwh_per_kg) ==
    NDiv(NMul(h2_output_kg, avg_sec_kwh_per_kg), I(1000))

add_compression_to_sec(avg_sec_kwh_per_kg, compression_kwh_per_kg) ==
    NAdd(avg_sec_kwh_per_kg, NMax(compression_kwh_per_kg, Zero))

electrolyser_capex_eur(capex_eur_per_kw, installed_kw) ==
    NMul(capex_eur_per_kw, installed_kw)

annualised_capex_eur_per_year(capex_eur, i, n_years) ==
    NMul(capex_eur, crf(i, n_years))

electricity_cost_eur(electricity_mwh, price_eur_per_mwh) ==
    NMul(electricity_mwh, price_eur_per_mwh)

electricity_cost_eur_per_kg(cost_eur, h2_output_kg) ==
    NDiv(cost_eur, NMax(h2_output_kg, Eps))

other_opex_total_eur(capex_eur, pct_per_year, econ_years) ==
    NMul(NMul(capex_eur, pct_per_year), I(econ_years))

stack_replacement_total_eur(capex_eur, pct_capex, n_repl) ==
    NMul(NMul(capex_eur, pct_capex), n_repl)

other_opex_eur_per_kg(other_opex_eur, stack_eur, h2_output_kg) ==
    NDiv(NAdd(other_opex_eur, stack_eur), NMax(h2_output_kg, Eps))

grid_fees_total_eur(electricity_mwh, grid_fee_eur_per_mwh) ==
    NMul(electricity_mwh, grid_fee_eur_per_mwh)

grid_fees_eur_per_kg(grid_eur, h2_output_kg) ==
    NDiv(grid_eur, NMax(h2_output_kg, Eps))

taxes_total_eur(electricity_mwh, taxes_eur_per_mwh) ==
    NMul(electricity_mwh, taxes_eur_per_mwh)

taxes_eur_per_kg(taxes_eur, h2_output_kg) ==
    NDiv(taxes_eur, NMax(h2_output_kg, Eps))

subsidies_total_eur(capex_kw, grant_eur_per_kw, h2_output_kg, premium_eur_per_kg, electricity_mwh, reduction_eur_per_mwh) ==
    LET capex_grant == NMul(grant_eur_per_kw, capex_kw)
        premium == NMul(premium_eur_per_kg, h2_output_kg)
        reduction == NMul(reduction_eur_per_mwh, electricity_mwh)
    IN  NAdd(NAdd(capex_grant, premium), reduction)

\* The subsidies per kg with the sign of a cost.
subsidies_as_cost_eur_per_kg(subsidies_eur, h2_output_kg) ==
    NDiv(subsidies_eur, NMax(h2_output_kg, Eps))

subsidies_eur_per_kg(subsidies_eur, h2_output_kg) ==
    NDiv(NNeg(subsidies_eur), NMax(h2_output_kg, Eps))

oxygen_output_kg(h2_output_kg) == NMul(h2_output_kg, I(8))

oxygen_revenues_total_eur(o2_output_kg, o2_price_eur_per_ton) ==
    NMul(NDiv(o2_output_kg, I(1000)), o2_price_eur_per_ton)

oxygen_revenues_eur_per_kg(o2_total_eur, h2_output_kg) ==
    NDiv(NNeg(o2_total_eur), NMax(h2_output_kg, Eps))

(***************************************************************************)
(* h2verde_tea_eho: the scenarios a call is made with                      *)
(***************************************************************************)

\* The largest number of blocks a call of average_sec_kwh_per_kg_over_life
\* is followed through: its loop is unbounded for some inputs.
MaxBlocks == 12

\* The operating profile and the stack: durability, hours per year,
\* economic life, availability and degradation.  The durabilities include
\* a negative one, zero and one below the 1e-12 floor (1e-24).
EhoDurabilities == {I(-500), Zero, QE(1, 1, -2), I(1500), I(2500), I(5000)}
EhoHours == {Zero, I(1000), I(2500)}
EhoLives == {-1, 0, 1, 2, 3}
EhoAvailabilities == {Q(1, 2), I(1)}
EhoDegradations == {Zero, I(100)}

\* The plant: <<power_kw, sec_start_kwh_per_kg, compression_kwh_per_kg>>.
EhoPlants == {<<I(2), I(4), I(1)>>, <<Zero, I(4), I(1)>>,
              <<I(2), Zero, Zero>>, <<I(2), I(4), I(-1)>>}

\* The money: <<discount_rate, capex_subsidy_eur_per_kw,
\* h2_premium_eur_per_kg, reduction_grid_or_tax_eur_per_mwh,
\* oxygen_sale_price_eur_per_ton>>.
EhoMoney == {<<Zero, Zero, Zero, Zero, Zero>>,
             <<I(1), I(1), I(1), I(1), I(2)>>,
             <<I(-2), Zero, Zero, Zero, Zero>>,
             <<I(1), Zero, Zero, Zero, I(-1)>>,
             <<I(1), I(-1), Zero, Zero, Zero>>}

EHOScenario(dur, hours, life, avail, degr, plant, money) ==
    [electrolyser |->
        [power_kw |-> plant[1],
         sec_start_kwh_per_kg |-> plant[2],
         stack_durability_h |-> dur,
         degradation_pct_per_1000h |-> degr,
         compression_kwh_per_kg |-> plant[3]],
     economics |->
        [economic_life_years |-> life,
         discount_rate |-> money[1],
         other_opex_pct_capex_per_year |-> Q(1, 2),
         stack_replacement_pct_capex |-> Q(1, 4),
         electricity_price_eur_per_mwh |-> I(5),
         grid_fees_eur_per_mwh |-> I(3),
         electricity_taxes_eur_per_mwh |-> I(2)],
     capex |->
        [electrolyser_capex_eur_per_kw |-> I(7),
         installed_power_kw |-> plant[1]],
     subs |->
        [capex_subsidy_eur_per_kw |-> money[2],
         h2_premium_eur_per_kg |-> money[3],
         reduction_grid_or_tax_eur_per_mwh |-> money[4],
         oxygen_sale_price_eur_per_ton |-> money[5]],
     ops |->
        [operating_hours_per_year |-> hours,
         availability |-> avail],
     currency |-> "EUR"]

\* Degradation is followed through blocks of 1e-24 hours only at rate 0:
\* the coefficients of the degraded SEC leave TLC's integers otherwise.
EhoScenarios ==
    {sc \in {EHOScenario(dur, hours, life, avail, degr, plant, money) :
                dur \in EhoDurabilities, hours \in EhoHours,
                life \in EhoLives, avail \in EhoAvailabilities,
                degr \in EhoDegradations,
                plant \in EhoPlants, money \in EhoMoney} :
        sc.electrolyser.stack_durability_h = QE(1, 1, -2)
            => IsZero(sc.electrolyser.degradation_pct_per_1000h)}

(***************************************************************************)
(* h2verde_tea_eho: simulate_eho, step by step                             *)
(***************************************************************************)

\* The hours per year taken as they are, the availability left out.
nominal_hours(op) == op.operating_hours_per_year

\* Line 229: the effective hours per year.
effective_hours(op) == NMul(op.operating_hours_per_year, op.availability)

\* Lines 229-232 and 94-102: simulate_eho up to the head of the loop of
\* average_sec_kwh_per_kg_over_life.
EhoBegin ==
    /\ pc = "simulate_eho"
    /\ LET op_hours == effective_hours(s.ops)
           life == s.economics.economic_life_years
           dur == s.electrolyser.stack_durability_h
       IN  loc' = [op_hours |-> op_hours,
                   n_repl |-> stack_replacements(life, op_hours, dur),
                   total_hours |-> NMul(I(life), op_hours),
                   repls |-> stack_replacements(life, op_hours, dur),
                   sec_sum |-> Zero,
                   hours_counted |-> Zero,
                   hours_until_reset |-> dur,
                   current_sec |-> s.electrolyser.sec_start_kwh_per_kg,
                   blocks |-> 0]
    /\ pc' = "while"
    /\ UNCHANGED <<s, c, ret>>

\* Line 104: the loop condition.
while_cond(l) == NLt(l.hours_counted, NSub(l.total_hours, Tol))

\* Line 106 without its third term: a block that stops at the end of the
\* horizon but not at the reset of the stack.
next_block_past_reset(l) ==
    NMin(I(1000), NSub(l.total_hours, l.hours_counted))

\* Line 106: the length of the next block.
next_block(l) ==
    NMin(NMin(I(1000), NSub(l.total_hours, l.hours_counted)),
         l.hours_until_reset)

\* Line 120 without its second condition: the stack is reset whenever its
\* hours are used up, at the end of the horizon too.
stack_reset_at_end(l) == NLe(NSub(l.hours_until_reset, next_block(l)), Tol)

\* Line 120: whether the pass that starts with the locals l ends by resetting
\* the stack.
stack_reset(l) ==
    /\ NLe(NSub(l.hours_until_reset, next_block(l)), Tol)
    /\ NLt(NAdd(l.hours_counted, next_block(l)), NSub(l.total_hours, Tol))

\* Lines 106-122: one pass of the loop body.
loop_body(l, sec0, degr, dur) ==
    LET block == next_block(l)
        rate_per_h == NDiv(NDiv(degr, I(100)), I(1000))
        sec_end == NMul(l.current_sec, NAdd(I(1), NMul(rate_per_h, block)))
        sec_block_avg == NDiv(NAdd(l.current_sec, sec_end), I(2))
        counted == NAdd(l.hours_counted, block)
        until == NSub(l.hours_until_reset, block)
        reset == stack_reset(l)
    IN  [l EXCEPT !.sec_sum = NAdd(@, NMul(sec_block_avg, block)),
                  !.current_sec = IF reset THEN sec0 ELSE sec_end,
                  !.hours_counted = counted,
                  !.hours_until_reset = IF reset THEN dur ELSE until,
                  !.blocks = @ + 1]

EhoBlock ==
    /\ pc = "while"
    /\ while_cond(loc)
    /\ loc.blocks < MaxBlocks
    /\ loc' = loop_body(loc, s.electrolyser.sec_start_kwh_per_kg,
                        s.electrolyser.degradation_pct_per_1000h,
                        s.electrolyser.stack_durability_h)
    /\ UNCHANGED <<pc, s, c, ret>>

\* Line 124: the average returned once the loop is left.
avg_sec(l) == NDiv(l.sec_sum, NMax(l.total_hours, Eps))

\* Lines 124-125 and 235-248: the loop is left, the average SEC returned,
\* compression added, capacity, production and consumption computed.
EhoOutput ==
    /\ pc = "while"
    /\ ~while_cond(loc)
    /\ LET e == s.electrolyser
           avg_sec_el_kwh_kg == avg_sec(loc)
           avg_sec_total_kwh_kg ==
               add_compression_to_sec(avg_sec_el_kwh_kg,
                                      e.compression_kwh_per_kg)
           cap_kg_h == capacity_kg_per_h(e.power_kw, avg_sec_total_kwh_kg)
           h2_total_kg ==
               hydrogen_output_kg(loc.op_hours, cap_kg_h,
                                  s.economics.economic_life_years)
       IN  loc' = [op_hours |-> loc.op_hours,
                   n_repl |-> loc.n_repl,
                   avg_sec_el_kwh_kg |-> avg_sec_el_kwh_kg,
                   avg_sec_total_kwh_kg |-> avg_sec_total_kwh_kg,
                   cap_kg_h |-> cap_kg_h,
                   h2_total_kg |-> h2_total_kg,
                   elec_mwh |->
                       electricity_consumption_mwh(h2_total_kg,
                                                   avg_sec_total_kwh_kg)]
    /\ pc' = "capex"
    /\ UNCHANGED <<s, c, ret>>

\* Lines 253-254: the capital recovery factor divides by (1+i)**n - 1 and
\* the production per year by economic_life_years, neither guarded.
capex_raises(sc) ==
    \/ crf_raises(sc.economics.discount_rate, sc.economics.economic_life_years)
    \/ sc.economics.economic_life_years = 0

EhoRaise ==
    /\ pc = "capex"
    /\ capex_raises(s)
    /\ pc' = "ZeroDivisionError"
    /\ UNCHANGED <<s, c, loc, ret>>

\* The total with the oxygen revenue left out.
lcoh_total_without_oxygen(b) ==
    NAdd(NAdd(NAdd(NAdd(NAdd(b.capex, b.electricity), b.other_opex),
                   b.grid_fees), b.taxes), b.subsidies)

\* Lines 289-290: the total of the seven contributions.
lcoh_total_of(b) ==
    NAdd(NAdd(NAdd(NAdd(NAdd(NAdd(b.capex, b.electricity), b.other_opex),
                        b.grid_fees), b.taxes), b.subsidies),
         b.oxygen_revenues)

\* Lines 251-315: the contributions, the total and the returned result.
eho_result(sc, l) ==
    LET ec == sc.economics
        cap == sc.capex
        sb == sc.subs
        h2_total_kg == l.h2_total_kg
        elec_mwh == l.elec_mwh
        capex_eur == electrolyser_capex_eur(cap.electrolyser_capex_eur_per_kw,
                                            cap.installed_power_kw)
        ann_capex_eur_year ==
            annualised_capex_eur_per_year(capex_eur, ec.discount_rate,
                                          ec.economic_life_years)
        h2_per_year == NDiv(h2_total_kg, I(ec.economic_life_years))
        elec_cost_eur ==
            electricity_cost_eur(elec_mwh, ec.electricity_price_eur_per_mwh)
        other_eur ==
            other_opex_total_eur(capex_eur, ec.other_opex_pct_capex_per_year,
                                 ec.economic_life_years)
        stack_eur ==
            stack_replacement_total_eur(capex_eur,
                                        ec.stack_replacement_pct_capex,
                                        l.n_repl)
        grid_eur == grid_fees_total_eur(elec_mwh, ec.grid_fees_eur_per_mwh)
        tax_eur == taxes_total_eur(elec_mwh, ec.electricity_taxes_eur_per_mwh)
        subs_eur_total ==
            subsidies_total_eur(cap.installed_power_kw,
                                sb.capex_subsidy_eur_per_kw, h2_total_kg,
                                sb.h2_premium_eur_per_kg, elec_mwh,
                                sb.reduction_grid_or_tax_eur_per_mwh)
        o2_kg == oxygen_output_kg(h2_total_kg)
        o2_eur ==
            oxygen_revenues_total_eur(o2_kg, sb.oxygen_sale_price_eur_per_ton)
        breakdown ==
            [capex |-> NDiv(ann_capex_eur_year, NMax(h2_per_year, Eps)),
             electricity |->
                 electricity_cost_eur_per_kg(elec_cost_eur, h2_total_kg),
             other_opex |->
                 other_opex_eur_per_kg(other_eur, stack_eur, h2_total_kg),
             grid_fees |-> grid_fees_eur_per_kg(grid_eur, h2_total_kg),
             taxes |-> taxes_eur_per_kg(tax_eur, h2_total_kg),
             subsidies |-> subsidies_eur_per_kg(subs_eur_total, h2_total_kg),
             oxygen_revenues |->
                 oxygen_revenues_eur_per_kg(o2_eur, h2_total_kg)]
    IN  [currency |-> sc.currency,
         lcoh_total |-> lcoh_total_of(breakdown),
         breakdown_eur_per_kg |-> breakdown,
         lifetime_totals |->
            [H2_total_kg |-> h2_total_kg,
             Electricity_total_MWh |-> elec_mwh,
             Stack_replacements |-> l.n_repl,
             Average_SEC_kWh_per_kg |-> l.avg_sec_total_kwh_kg,
             Electrolyser_CAPEX_EUR |-> capex_eur,
             Grid_fees_EUR |-> grid_eur,
             Taxes_EUR |-> tax_eur,
             Subsidies_total_EUR |-> subs_eur_total,
             Oxygen_revenues_total_EUR |-> o2_eur]]

EhoReturn ==
    /\ pc = "capex"
    /\ ~capex_raises(s)
    /\ ret' = << eho_result(s, loc) >>
    /\ pc' = "returned"
    /\ UNCHANGED <<s, c, loc>>

InitEho ==
    /\ pc = "simulate_eho"
    /\ s \in EhoScenarios
    /\ c = None
    /\ loc = None
    /\ ret = None

NextEho == EhoBegin \/ EhoBlock \/ EhoOutput \/ EhoRaise \/ EhoReturn

SpecEho == InitEho /\ [][NextEho]_vars

(***************************************************************************)
(* h2verde_tea: the functions                                              *)
(***************************************************************************)

ItemLinha(nome, valor, unidade) ==
    [nome |-> nome, valor |-> valor, unidade |-> unidade]

\* validar accepting every capacity factor from 0 up.
validar_sem_limite_superior(cen) == NLe(Zero, cen.fator_capacidade_anual)

\* CenarioEntrada.validar: TRUE when it returns, FALSE when it raises
\* ValueError.
validar(cen) ==
    /\ NLe(Zero, cen.fator_capacidade_anual)
    /\ NLe(cen.fator_capacidade_anual, I(1))

fator_recuperacao_capital_raises(wacc_real, anos) ==
    /\ anos > 0
    /\ ~IsZero(wacc_real)
    /\ IsZero(NSub(NPow(NAdd(I(1), wacc_real), anos), I(1)))

fator_recuperacao_capital(wacc_real, anos) ==
    LET i == wacc_real
    IN  IF anos <= 0 THEN I(1)
        ELSE IF IsZero(i) THEN NDiv(I(1), I(anos))
        ELSE NDiv(NMul(i, NPow(NAdd(I(1), i), anos)),
                  NSub(NPow(NAdd(I(1), i), anos), I(1)))

anualizar_capex(capex_total, wacc_real, anos) ==
    NMul(capex_total, fator_recuperacao_capital(wacc_real, anos))

producao_anual_kg(e, fator_cf, horas_ano) ==
    LET horas_efetivas == NMul(NMul(I(horas_ano), fator_cf), e.disponibilidade)
    IN  NDiv(NMul(e.potencia_kw, horas_efetivas),
             NMax(e.sec_kwh_por_kg, Eps))

capacidade_armazenamento_kg(cae, h2_anual_kg, horas_ano) ==
    LET media_kg_h == NDiv(h2_anual_kg, NMax(horas_ano, Eps))
    IN  NMul(media_kg_h, cae.horas_buffer)

\* The value of the first item of the list named nome.
valor_de(itens, nome) ==
    itens[CHOOSE i \in 1..Len(itens) :
            /\ itens[i].nome = nome
            /\ \A j \in 1..(i - 1) : itens[j].nome # nome].valor

\* sum(i.valor for i in itens).
RECURSIVE soma_valores(_)
soma_valores(itens) ==
    IF itens = << >> THEN Zero
    ELSE NAdd(soma_valores(SubSeq(itens, 1, Len(itens) - 1)),
              itens[Len(itens)].valor)

\* calcular_capex with a total that leaves the contingency out.
calcular_capex_sem_contingencia(cen) ==
    LET p_kw == cen.eletrolisador.potencia_kw
        eletrolisador == NMul(p_kw, cen.capex.eletrolisador_capex_por_kw)
        bop == NMul(eletrolisador, cen.capex.fracao_bop)
        interconexao == NMul(p_kw, cen.capex.interconexao_por_kw)
        kg_h == NDiv(p_kw, NMax(cen.eletrolisador.sec_kwh_por_kg, Eps))
        compressor == NMul(kg_h, cen.capex.compressor_capex_por_kg_h)
        h2_anual == producao_anual_kg(cen.eletrolisador,
                                      cen.fator_capacidade_anual,
                                      cen.horas_ano)
        armazenamento ==
            NMul(capacidade_armazenamento_kg(
                     cen.cae, h2_anual,
                     NMul(I(cen.horas_ano), cen.eletrolisador.disponibilidade)),
                 cen.cae.capex_armazenamento_por_kg)
        agua == cen.capex.capex_tratamento_agua
        diretos ==
            NAdd(NAdd(NAdd(NAdd(NAdd(eletrolisador, bop), interconexao),
                           compressor), armazenamento), agua)
        instalacao == NMul(diretos, NDiv(cen.capex.instalacao_pct, I(100)))
        custos_dono == NMul(diretos, NDiv(cen.capex.custos_dono_pct, I(100)))
        contingencia ==
            NMul(NAdd(NAdd(diretos, instalacao), custos_dono),
                 NDiv(cen.financiamento.contingencia_capex_pct, I(100)))
        total == NAdd(NAdd(diretos, instalacao), custos_dono)
    IN  << ItemLinha("Eletrolisador", eletrolisador, cen.moeda),
           ItemLinha("Balance of Plant", bop, cen.moeda),
           ItemLinha("Interconexao", interconexao, cen.moeda),
           ItemLinha("Compressor", compressor, cen.moeda),
           ItemLinha("Armazenamento Buffer", armazenamento, cen.moeda),
           ItemLinha("Tratamento Agua", agua, cen.moeda),
           ItemLinha("Instalacao/EPC", instalacao, cen.moeda),
           ItemLinha("Custos do Dono", custos_dono, cen.moeda),
           ItemLinha("Contingencia", contingencia, cen.moeda),
           ItemLinha("Total CAPEX", total, cen.moeda) >>

calcular_capex(cen) ==
    LET p_kw == cen.eletrolisador.potencia_kw
        eletrolisador == NMul(p_kw, cen.capex.eletrolisador_capex_por_kw)
        bop == NMul(eletrolisador, cen.capex.fracao_bop)
        interconexao == NMul(p_kw, cen.capex.interconexao_por_kw)
        kg_h == NDiv(p_kw, NMax(cen.eletrolisador.sec_kwh_por_kg, Eps))
        compressor == NMul(kg_h, cen.capex.compressor_capex_por_kg_h)
        h2_anual == producao_anual_kg(cen.eletrolisador,
                                      cen.fator_capacidade_anual,
                                      cen.horas_ano)
        armazenamento ==
            NMul(capacidade_armazenamento_kg(
                     cen.cae, h2_anual,
                     NMul(I(cen.horas_ano), cen.eletrolisador.disponibilidade)),
                 cen.cae.capex_armazenamento_por_kg)
        agua == cen.capex.capex_tratamento_agua
        diretos ==
            NAdd(NAdd(NAdd(NAdd(NAdd(eletrolisador, bop), interconexao),
                           compressor), armazenamento), agua)
        instalacao == NMul(diretos, NDiv(cen.capex.instalacao_pct, I(100)))
        custos_dono == NMul(diretos, NDiv(cen.capex.custos_dono_pct, I(100)))
        contingencia ==
            NMul(NAdd(NAdd(diretos, instalacao), custos_dono),
                 NDiv(cen.financiamento.contingencia_capex_pct, I(100)))
        total == NAdd(NAdd(NAdd(diretos, instalacao), custos_dono),
                      contingencia)
    IN  << ItemLinha("Eletrolisador", eletrolisador, cen.moeda),
           ItemLinha("Balance of Plant", bop, cen.moeda),
           ItemLinha("Interconexao", interconexao, cen.moeda),
           ItemLinha("Compressor", compressor, cen.moeda),
           ItemLinha("Armazenamento Buffer", armazenamento, cen.moeda),
           ItemLinha("Tratamento Agua", agua, cen.moeda),
           ItemLinha("Instalacao/EPC", instalacao, cen.moeda),
           ItemLinha("Custos do Dono", custos_dono, cen.moeda),
           ItemLinha("Contingencia", contingencia, cen.moeda),
           ItemLinha("Total CAPEX", total, cen.moeda) >>

calcular_opex_fixo(cen, itens_capex) ==
    LET total_capex == valor_de(itens_capex, "Total CAPEX")
        om_fixo == NMul(total_capex, cen.bop.om_fixo_pct_capex_ano)
        demanda ==
            IF Sign(cen.energia.demanda_kw_mes) > 0
            THEN NMul(NMul(cen.energia.demanda_kw_mes,
                           cen.energia.demanda_contratada_kw), I(12))
            ELSE Zero
    IN  << ItemLinha("O&M Fixo (% CAPEX)", om_fixo, cen.moeda),
           ItemLinha("Custo Demanda (anual)", demanda, cen.moeda) >>

\* [itens_energia, itens_var, mwh_anual, total_kwh_kg]: the four values
\* calcular_energia_var returns.
calcular_energia_var(cen, h2_anual) ==
    LET sec == cen.eletrolisador.sec_kwh_por_kg
        comp == cen.cae.energia_compressao_kwh_por_kg
        total_kwh_kg == NAdd(sec, comp)
        mwh_anual == NDiv(NMul(total_kwh_kg, h2_anual), I(1000))
        custo_energia == NMul(mwh_anual, cen.energia.preco_mwh)
        m3_agua == NMul(NDiv(cen.agua.litros_por_kg, I(1000)), h2_anual)
        custo_agua == NMul(m3_agua, cen.agua.custo_agua_m3)
        vom == NAdd(NMul(cen.bop.om_variavel_por_kg, h2_anual),
                    NMul(cen.cae.secagem_purificacao_por_kg, h2_anual))
    IN  [itens_energia |->
            << ItemLinha("Eletricidade (Eletrolise+Compressao)", mwh_anual,
                         "MWh/ano"),
               ItemLinha("SEC Medio (incl. compressao)", total_kwh_kg,
                         "kWh/kg") >>,
         itens_var |->
            << ItemLinha("Custo Energia", custo_energia, cen.moeda),
               ItemLinha("Custo Agua", custo_agua, cen.moeda),
               ItemLinha("O&M Variavel", vom, cen.moeda) >>,
         mwh_anual |-> mwh_anual,
         kwh_por_kg |-> total_kwh_kg]

(***************************************************************************)
(* h2verde_tea: the scenarios a call is made with                          *)
(***************************************************************************)

\* The capacity factors: below 0, the bounds 0 and 1, inside, above 1.
TeaFactors == {Q(-1, 2), Zero, Q(1, 2), I(1), Q(3, 2)}

\* The electrolyser: <<potencia_kw, sec_kwh_por_kg, vida_util_anos>>.  The
\* powers include zero and 1e-24 kW, whose production is below 1e-12 kg.
TeaElectrolysers ==
    {<<I(2), I(4), 2>>, <<Zero, I(4), 2>>, <<QE(1, 1, -2), I(4), 2>>,
     <<I(2), Zero, 2>>, <<I(2), I(4), 0>>, <<QE(1, 1, -2), Zero, 2>>}

\* The financing: <<wacc_real, vida_projeto_anos>>.
TeaWaccs == {Zero, I(1), I(-2)}
TeaProjectLives == {0, 2, 3}

TeaDemandRates == {Zero, I(1)}
TeaHours == {0, 10}

CenarioEntrada(cf, el, wacc, vida, demanda, horas) ==
    [moeda |-> "BRL",
     eletrolisador |->
        [nome |-> "PEM",
         sec_kwh_por_kg |-> el[2],
         fracao_minima_carga |-> Q(1, 10),
         disponibilidade |-> Q(1, 2),
         potencia_kw |-> el[1],
         vida_util_anos |-> el[3],
         degradacao_pct_ano |-> Q(1, 2),
         fracao_reposicao_stack_capex |-> Q(1, 4)],
     bop |->
        [fracao_capex_bop |-> Q(1, 2),
         om_fixo_pct_capex_ano |-> Q(1, 2),
         om_variavel_por_kg |-> I(1)],
     energia |->
        [preco_mwh |-> I(5),
         demanda_kw_mes |-> demanda,
         demanda_contratada_kw |-> I(3)],
     agua |->
        [custo_agua_m3 |-> I(5),
         litros_por_kg |-> I(9)],
     cae |->
        [pressao_entrega_bar |-> I(350),
         energia_compressao_kwh_por_kg |-> I(1),
         capex_armazenamento_por_kg |-> I(4),
         horas_buffer |-> I(4),
         secagem_purificacao_por_kg |-> I(1)],
     financiamento |->
        [wacc_real |-> wacc,
         inflacao_pct |-> I(4),
         vida_projeto_anos |-> vida,
         fracao_divida |-> Q(3, 5),
         contingencia_capex_pct |-> I(100)],
     capex |->
        [eletrolisador_capex_por_kw |-> I(7),
         fracao_bop |-> Q(1, 2),
         instalacao_pct |-> I(50),
         custos_dono_pct |-> I(50),
         interconexao_por_kw |-> I(1),
         capex_tratamento_agua |-> I(3),
         compressor_capex_por_kg_h |-> I(2)],
     fator_capacidade_anual |-> cf,
     horas_ano |-> horas,
     emissoes_rede_kg_mwh |-> I(80)]

TeaScenarios ==
    {CenarioEntrada(cf, el, wacc, vida, demanda, horas) :
        cf \in TeaFactors, el \in TeaElectrolysers, wacc \in TeaWaccs,
        vida \in TeaProjectLives, demanda \in TeaDemandRates,
        horas \in TeaHours}

(***************************************************************************)
(* h2verde_tea: simular, step by step                                      *)
(***************************************************************************)

\* Line 143: validation raises.
TeaInvalid ==
    /\ pc = "simular"
    /\ ~validar(c)
    /\ pc' = "ValueError"
    /\ UNCHANGED <<s, c, loc, ret>>

\* Lines 143-147: validation passes, the CAPEX items are computed.
TeaCapex ==
    /\ pc = "simular"
    /\ validar(c)
    /\ LET itens_capex == calcular_capex(c)
       IN  loc' = [itens_capex |-> itens_capex,
                   total_capex |-> valor_de(itens_capex, "Total CAPEX")]
    /\ pc' = "producao"
    /\ UNCHANGED <<s, c, ret>>

\* Lines 150-151: production and energy.
TeaProducao ==
    /\ pc = "producao"
    /\ LET h2_anual == producao_anual_kg(c.eletrolisador,
                                         c.fator_capacidade_anual,
                                         c.horas_ano)
           ev == calcular_energia_var(c, h2_anual)
       IN  loc' = [itens_capex |-> loc.itens_capex,
                   total_capex |-> loc.total_capex,
                   h2_anual |-> h2_anual,
                   itens_energia |-> ev.itens_energia,
                   itens_var |-> ev.itens_var,
                   mwh_anual |-> ev.mwh_anual,
                   kwh_por_kg |-> ev.kwh_por_kg]
    /\ pc' = "opex"
    /\ UNCHANGED <<s, c, ret>>

\* Line 160: the straight-line yearly reserve for the stack.
reposicao_anual(cen) ==
    LET base_stack ==
            NMul(NMul(cen.capex.eletrolisador_capex_por_kw,
                      cen.eletrolisador.potencia_kw),
                 cen.eletrolisador.fracao_reposicao_stack_capex)
        anos == IF cen.eletrolisador.vida_util_anos < 1 THEN 1
                ELSE cen.eletrolisador.vida_util_anos
    IN  NDiv(base_stack, I(anos))

\* Lines 154-160: fixed and variable costs, the stack reserve.
TeaOpex ==
    /\ pc = "opex"
    /\ LET itens_fixos == calcular_opex_fixo(c, loc.itens_capex)
       IN  loc' = [itens_capex |-> loc.itens_capex,
                   total_capex |-> loc.total_capex,
                   h2_anual |-> loc.h2_anual,
                   itens_energia |-> loc.itens_energia,
                   itens_var |-> loc.itens_var,
                   mwh_anual |-> loc.mwh_anual,
                   kwh_por_kg |-> loc.kwh_por_kg,
                   itens_fixos |-> itens_fixos,
                   custo_fixo |-> soma_valores(itens_fixos),
                   custo_variavel |-> soma_valores(loc.itens_var),
                   reposicao_anual_equiv |-> reposicao_anual(c)]
    /\ pc' = "anualizar"
    /\ UNCHANGED <<s, c, ret>>

\* Line 163: the capital recovery factor divides by zero.
TeaRaise ==
    /\ pc = "anualizar"
    /\ fator_recuperacao_capital_raises(c.financiamento.wacc_real,
                                        c.financiamento.vida_projeto_anos)
    /\ pc' = "ZeroDivisionError"
    /\ UNCHANGED <<s, c, loc, ret>>

\* The list returned without the line of the stack reserve.
opex_variavel_sem_reposicao(itens_var, reposicao, moeda) == itens_var

\* Line 179: the variable costs returned, the stack reserve appended.
opex_variavel_retornado(itens_var, reposicao, moeda) ==
    itens_var \o << ItemLinha("Reposicao Stack (anual eq.)", reposicao, moeda) >>

\* Lines 163-181: the LCOH, the emissions and the result.
tea_result(cen, l) ==
    LET capex_anual ==
            anualizar_capex(l.total_capex, cen.financiamento.wacc_real,
                            cen.financiamento.vida_projeto_anos)
        custo_total_anual ==
            NAdd(NAdd(NAdd(capex_anual, l.custo_fixo), l.custo_variavel),
                 l.reposicao_anual_equiv)
        lcoh == NDiv(custo_total_anual, NMax(l.h2_anual, Eps))
        emissoes == NMul(NDiv(l.kwh_por_kg, I(1000)), cen.emissoes_rede_kg_mwh)
    IN  [lcoh |-> lcoh,
         h2_anual_kg |-> l.h2_anual,
         mwh_anual |-> l.mwh_anual,
         emissoes_kgco2_por_kg |-> emissoes,
         capex |-> l.itens_capex,
         opex_fixo |-> l.itens_fixos,
         opex_variavel |->
             opex_variavel_retornado(l.itens_var, l.reposicao_anual_equiv,
                                     cen.moeda),
         energia |-> l.itens_energia]

TeaReturn ==
    /\ pc = "anualizar"
    /\ ~fator_recuperacao_capital_raises(c.financiamento.wacc_real,
                                         c.financiamento.vida_projeto_anos)
    /\ ret' = << tea_result(c, loc) >>
    /\ pc' = "returned"
    /\ UNCHANGED <<s, c, loc>>

InitTea ==
    /\ pc = "simular"
    /\ c \in TeaScenarios
    /\ s = None
    /\ loc = None
    /\ ret = None

NextTea ==
    TeaInvalid \/ TeaCapex \/ TeaProducao \/ TeaOpex \/ TeaRaise \/ TeaReturn

SpecTea == InitTea /\ [][NextTea]_vars

(***************************************************************************)
(* The capital recovery factors of the two models, called on the same      *)
(* arguments: loc holds the arguments, ret the outcomes of the calls made  *)
(* so far.                                                                 *)
(***************************************************************************)

CrfRates == {I(-2), I(-1), Q(-1, 2), Zero, Q(1, 10), Q(1, 2), I(1), I(2)}
CrfPeriods == {-2, -1, 0, 1, 2, 3, 4}

\* The outcome of a call: an exception or a value.
Outcome(fn, raised, value) ==
    [fn |-> fn, raised |-> raised, value |-> IF raised THEN Zero ELSE value]

Called(fn) == \E k \in 1..Len(ret) : ret[k].fn = fn

CallCrf ==
    /\ pc = "crf"
    /\ ~Called("crf")
    /\ ret' = Append(ret, Outcome("crf", crf_raises(loc.i, loc.n),
                                  crf(loc.i, loc.n)))
    /\ UNCHANGED <<pc, s, c, loc>>

CallFator ==
    /\ pc = "crf"
    /\ ~Called("fator_recuperacao_capital")
    /\ ret' = Append(ret,
                Outcome("fator_recuperacao_capital",
                        fator_recuperacao_capital_raises(loc.i, loc.n),
                        fator_recuperacao_capital(loc.i, loc.n)))
    /\ UNCHANGED <<pc, s, c, loc>>

InitCrf ==
    /\ pc = "crf"
    /\ loc \in [i : CrfRates, n : CrfPeriods]
    /\ s = None
    /\ c = None
    /\ ret = None

NextCrf == CallCrf \/ CallFator

SpecCrf == InitCrf /\ [][NextCrf]_vars

(***************************************************************************)
(* stack_replacements called again and again with a longer life or a       *)
(* longer-lived stack: loc holds the arguments, ret the last two calls.    *)
(***************************************************************************)

ReplLives == {-1, 0, 1, 2, 3}
ReplHours == {I(-1000), Zero, I(1000), I(2500)}
ReplDurabilities == {I(-500), Zero, QE(1, 1, -2), I(400), I(1000), I(1500)}

CallOf(args) ==
    [args |-> args,
     count |-> stack_replacements(args.econ_years, args.op_hours_per_year,
                                  args.durability_h)]

ReplCall ==
    /\ pc = "stack_replacements"
    /\ ret' = << CallOf(loc) >>
    /\ pc' = "called"
    /\ UNCHANGED <<s, c, loc>>

ReplLongerLife ==
    /\ pc = "called"
    /\ \E y \in ReplLives :
          /\ y > loc.econ_years
          /\ loc' = [loc EXCEPT !.econ_years = y]
          /\ ret' = << ret[Len(ret)], CallOf([loc EXCEPT !.econ_years = y]) >>
    /\ UNCHANGED <<pc, s, c>>

ReplMoreDurable ==
    /\ pc = "called"
    /\ \E d \in ReplDurabilities :
          /\ NLt(loc.durability_h, d)
          /\ loc' = [loc EXCEPT !.durability_h = d]
          /\ ret' = << ret[Len(ret)], CallOf([loc EXCEPT !.durability_h = d]) >>
    /\ UNCHANGED <<pc, s, c>>

InitRepl ==
    /\ pc = "stack_replacements"
    /\ loc \in [econ_years : ReplLives, op_hours_per_year : ReplHours,
                durability_h : ReplDurabilities]
    /\ s = None
    /\ c = None
    /\ ret = None

NextRepl == ReplCall \/ ReplLongerLife \/ ReplMoreDurable

SpecRepl == InitRepl /\ [][NextRepl]_vars

(***************************************************************************)
(* simular as one call, as the sensitivity routines make it                *)
(***************************************************************************)

\* Lines 150-160: the locals of simular when it reaches line 163, the CAPEX
\* lines and the annual production given.
locals_after_capex(cen, itens_capex, h2_anual) ==
    CHOOSE l \in
        {[itens_capex |-> itens_capex,
          total_capex |-> valor_de(itens_capex, "Total CAPEX"),
          h2_anual |-> h2_anual,
          itens_energia |-> ev.itens_energia,
          itens_var |-> ev.itens_var,
          mwh_anual |-> ev.mwh_anual,
          kwh_por_kg |-> ev.kwh_por_kg,
          itens_fixos |-> itens_fixos,
          custo_fixo |-> soma_valores(itens_fixos),
          custo_variavel |-> soma_valores(ev.itens_var),
          reposicao_anual_equiv |-> reposicao_anual(cen)] :
            ev \in {calcular_energia_var(cen, h2_anual)},
            itens_fixos \in {calcular_opex_fixo(cen, itens_capex)}} : TRUE

\* Lines 143-160: the locals of simular when it reaches line 163, each
\* computed once.
simular_locals(cen) ==
    CHOOSE l \in
        {locals_after_capex(cen, itens_capex, h2_anual) :
            itens_capex \in {calcular_capex(cen)},
            h2_anual \in {producao_anual_kg(cen.eletrolisador,
                                            cen.fator_capacidade_anual,
                                            cen.horas_ano)}} : TRUE

\* Lines 142-181: the exception simular ends with ("" for none) and the
\* result it returns.
simular(cen) ==
    IF ~validar(cen) THEN [raised |-> "ValueError", out |-> None]
    ELSE IF fator_recuperacao_capital_raises(
                cen.financiamento.wacc_real,
                cen.financiamento.vida_projeto_anos)
    THEN [raised |-> "ZeroDivisionError", out |-> None]
    ELSE [raised |-> "",
          out |-> CHOOSE r \in {tea_result(cen, l) :
                                   l \in {simular_locals(cen)}} : TRUE]

(***************************************************************************)
(* sensibilidade_h2verde: scenarios as objects.  A store is a sequence of  *)
(* objects, an object's address its index.  An object holds its plain     *)
(* attributes in vals and, in refs, the addresses of the objects its other *)
(* attributes refer to.  A dotted path is the sequence of its segments.    *)
(***************************************************************************)

\* The nested groups of CenarioEntrada, in the order of its fields.
GroupOrder ==
    << "eletrolisador", "bop", "energia", "agua", "cae", "financiamento",
       "capex" >>

Groups == {GroupOrder[k] : k \in 1..Len(GroupOrder)}

\* The index of g in the sequence seq.
IndexOf(seq, g) == CHOOSE k \in 1..Len(seq) : seq[k] = g

\* The store that holds the scenario cen at address 1 and its groups after.
store_of(cen) ==
    << [vals |-> [f \in DOMAIN cen \ Groups |-> cen[f]],
        refs |-> [g \in Groups |-> 1 + IndexOf(GroupOrder, g)]] >>
    \o [k \in 1..Len(GroupOrder) |->
            [vals |-> cen[GroupOrder[k]], refs |-> << >>]]

\* The scenario that simular reads from the object at address a.
cenario_at(store, a) ==
    [g \in DOMAIN store[a].refs |-> store[store[a].refs[g]].vals]
        @@ store[a].vals

\* getattr(cur, part): cur is an object or a plain value, which has none
\* of the attributes named here.
getattr(store, cur, part) ==
    IF cur.kind # "obj" THEN [kind |-> "AttributeError", at |-> 0, v |-> None]
    ELSE IF part \in DOMAIN store[cur.at].refs
    THEN [kind |-> "obj", at |-> store[cur.at].refs[part], v |-> None]
    ELSE IF part \in DOMAIN store[cur.at].vals
    THEN [kind |-> "val", at |-> 0, v |-> store[cur.at].vals[part]]
    ELSE [kind |-> "AttributeError", at |-> 0, v |-> None]

\* Lines 29-30 and 40-41: getattr along the segments of parts.
RECURSIVE walk(_, _, _)
walk(store, cur, parts) ==
    IF parts = << >> \/ cur.kind = "AttributeError" THEN cur
    ELSE walk(store, getattr(store, cur, Head(parts)), Tail(parts))

\* Lines 23-31.
_get_attr_dotted(store, a, dotted) ==
    walk(store, [kind |-> "obj", at |-> a, v |-> None], dotted)

\* setattr(obj, name, value) on an instance of a dataclass: the attribute
\* is rebound if the object has it and created if it has not.
setattr(obj, name, value) ==
    [vals |-> (name :> value) @@ obj.vals,
     refs |-> [g \in DOMAIN obj.refs \ {name} |-> obj.refs[g]]]

\* Lines 34-42: the exception raised ("" for none) and the store left.
_set_attr_dotted(store, a, dotted, value) ==
    LET cur == walk(store, [kind |-> "obj", at |-> a, v |-> None],
                    SubSeq(dotted, 1, Len(dotted) - 1))
    IN  IF cur.kind # "obj"
        THEN [raised |-> "AttributeError", store |-> store]
        ELSE [raised |-> "",
              store |-> [store EXCEPT ![cur.at] =
                            setattr(@, dotted[Len(dotted)], value)]]

\* copy.copy: a new scenario object that refers to the groups of the old.
_clone_cenario_raso(store, a) ==
    [store |-> Append(store, store[a]), at |-> Len(store) + 1]

\* Lines 45-46, copy.deepcopy: a new scenario object and new objects for
\* the groups it refers to.
_clone_cenario(store, a) ==
    LET present == SelectSeq(GroupOrder,
                             LAMBDA g : g \in DOMAIN store[a].refs)
        n == Len(store)
    IN  [store |->
            Append(store,
                   [vals |-> store[a].vals,
                    refs |-> [g \in DOMAIN store[a].refs |->
                                 n + 1 + IndexOf(present, g)]])
            \o [k \in 1..Len(present) |-> store[store[a].refs[present[k]]]],
         at |-> n + 1]

(***************************************************************************)
(* sensibilidade_h2verde: the routines, one pass of a loop at a time.      *)
(* c is the store that holds cenario_base at address 1, s the scenario it  *)
(* held when the first routine was called, loc the locals of the routine   *)
(* that runs, ret what the last routine returned or raised.                *)
(***************************************************************************)

\* The scenarios the routines are called on.
SensBases ==
    {CenarioEntrada(Q(1, 2), <<I(2), I(4), 2>>, I(1), 2, Zero, 10),
     CenarioEntrada(I(1), <<I(2), I(4), 2>>, Zero, 3, I(1), 10)}

\* The paths: three that name a field, one whose leaf is no field of its
\* group, one whose group is no field of the scenario.
SensPaths ==
    {<<"energia", "preco_mwh">>, <<"capex", "eletrolisador_capex_por_kw">>,
     <<"fator_capacidade_anual">>, <<"energia", "preco">>,
     <<"tarifa", "preco_mwh">>}

SensValues == {Q(1, 2), I(2), I(5)}

\* The lists of values: empty, one value, two and three in some order.
SensLists ==
    {<< >>, <<Q(1, 2)>>, <<I(2), Q(1, 2)>>, <<Q(1, 2), I(5), I(2)>>}

\* The objects of cenario_base: a clone is dropped when its name is bound
\* again.
base_objects(store) == SubSeq(store, 1, 1 + Len(GroupOrder))

\* _set_attr_dotted for each <<path, value>> of sets in turn, up to the
\* first that raises.
RECURSIVE set_all(_, _, _)
set_all(store, a, sets) ==
    IF sets = << >> THEN [raised |-> "", store |-> store]
    ELSE LET r == _set_attr_dotted(store, a, Head(sets)[1], Head(sets)[2])
         IN  IF r.raised # "" THEN r ELSE set_all(r.store, a, Tail(sets))

\* Lines 69, 106, 155-156, 294: simular called on the clone cl once the
\* attributes are set, st being what setting them gave.
variant_of(cl, st) ==
    IF st.raised # ""
    THEN [raised |-> st.raised, store |-> base_objects(st.store),
          c |-> None, out |-> None]
    ELSE CHOOSE r \in
             UNION {{[raised |-> sim.raised,
                      store |-> base_objects(st.store),
                      c |-> cen, out |-> sim.out] : sim \in {simular(cen)}} :
                    cen \in {cenario_at(st.store, cl.at)}} : TRUE

\* Lines 67-69, 103-106, 154-156, 274-295: a clone of cenario_base, the
\* attributes set on it, simular called on it.  The exception raised ("" for
\* none), the store left, the scenario c that simular was given, its result.
variant(store, sets) ==
    CHOOSE r \in
        UNION {{variant_of(cl, st) : st \in {set_all(cl.store, cl.at, sets)}} :
               cl \in {_clone_cenario(store, 1)}} : TRUE

\* What a routine leaves in ret: the exception it raised or its value.
Raised(exc) == [raised |-> exc, value |-> None]
Returned(value) == [raised |-> "", value |-> value]

\* Lines 53-65: sensibilidade_1d is called.
Call1d ==
    /\ pc = "idle"
    /\ \E parametro \in SensPaths, valores \in SensLists :
          loc' = [parametro |-> parametro, valores |-> valores,
                  resultados |-> << >>, c |-> None, calls |-> 0]
    /\ pc' = "sensibilidade_1d"
    /\ ret' = None
    /\ UNCHANGED <<s, c>>

\* Lines 66-74: one pass of the loop of sensibilidade_1d.
Step1d ==
    /\ pc = "sensibilidade_1d"
    /\ Len(loc.resultados) < Len(loc.valores)
    /\ \E v \in {loc.valores[Len(loc.resultados) + 1]} :
       \E r \in {variant(c, << <<loc.parametro, v>> >>)} :
           /\ c' = r.store
           /\ IF r.raised # ""
              THEN /\ pc' = "ended"
                   /\ ret' = Raised(r.raised)
                   /\ loc' = [loc EXCEPT !.c = r.c]
              ELSE /\ loc' = [loc EXCEPT
                                !.resultados =
                                    Append(@, [valor |-> v,
                                               lcoh |-> r.out.lcoh,
                                               h2_anual_kg |->
                                                   r.out.h2_anual_kg]),
                                !.c = r.c,
                                !.calls = @ + 1]
                   /\ UNCHANGED <<pc, ret>>
    /\ UNCHANGED s

\* Line 75.
Return1d ==
    /\ pc = "sensibilidade_1d"
    /\ Len(loc.resultados) = Len(loc.valores)
    /\ ret' = Returned(loc.resultados)
    /\ pc' = "ended"
    /\ UNCHANGED <<s, c, loc>>

\* Lines 82-100: sensibilidade_2d is called.
Call2d ==
    /\ pc = "idle"
    /\ \E param_x \in SensPaths, param_y \in SensPaths,
          valores_x \in SensLists, valores_y \in SensLists :
          loc' = [param_x |-> param_x, valores_x |-> valores_x,
                  param_y |-> param_y, valores_y |-> valores_y,
                  i |-> 1, j |-> 1, grid |-> << >>, c |-> None, calls |-> 0]
    /\ pc' = "sensibilidade_2d"
    /\ ret' = None
    /\ UNCHANGED <<s, c>>

\* Whether the loops of sensibilidade_2d have a pass left: an x left and,
\* for it, a y.
grid_pending(l) == l.i <= Len(l.valores_x) /\ Len(l.valores_y) > 0

\* The point with the two values taken for each other.
grid_point_swapped(vx, vy, lcoh) == [x |-> vy, y |-> vx, lcoh |-> lcoh]

\* Line 107: a point of the grid.
grid_point(vx, vy, lcoh) == [x |-> vx, y |-> vy, lcoh |-> lcoh]

\* Lines 101-107: one pass of the inner loop of sensibilidade_2d.
Step2d ==
    /\ pc = "sensibilidade_2d"
    /\ grid_pending(loc)
    /\ \E vx \in {loc.valores_x[loc.i]}, vy \in {loc.valores_y[loc.j]},
          last \in {loc.j = Len(loc.valores_y)} :
       \E r \in {variant(c, << <<loc.param_x, vx>>, <<loc.param_y, vy>> >>)} :
           /\ c' = r.store
           /\ IF r.raised # ""
              THEN /\ pc' = "ended"
                   /\ ret' = Raised(r.raised)
                   /\ loc' = [loc EXCEPT !.c = r.c]
              ELSE /\ loc' = [loc EXCEPT
                                !.grid = Append(@, grid_point(vx, vy,
                                                              r.out.lcoh)),
                                !.i = IF last THEN @ + 1 ELSE @,
                                !.j = IF last THEN 1 ELSE @ + 1,
                                !.c = r.c,
                                !.calls = @ + 1]
                   /\ UNCHANGED <<pc, ret>>
    /\ UNCHANGED s

\* Line 108.
Return2d ==
    /\ pc = "sensibilidade_2d"
    /\ ~grid_pending(loc)
    /\ ret' = Returned([param_x |-> loc.param_x, param_y |-> loc.param_y,
                        grid |-> loc.grid])
    /\ pc' = "ended"
    /\ UNCHANGED <<s, c, loc>>

\* The parameters of a tornado: nome, path, baixo, alto.  The second has
\* its high value below its low one, the last two change nothing.
TornadoParams ==
    {[nome |-> "Preco Energia", path |-> <<"energia", "preco_mwh">>,
      baixo |-> Q(1, 2), alto |-> I(5)],
     [nome |-> "CAPEX", path |-> <<"capex", "eletrolisador_capex_por_kw">>,
      baixo |-> I(5), alto |-> I(2)],
     [nome |-> "CF", path |-> <<"fator_capacidade_anual">>,
      baixo |-> Q(1, 2), alto |-> I(1)],
     [nome |-> "Agua", path |-> <<"agua", "custo_agua_m3">>,
      baixo |-> I(2), alto |-> I(2)],
     [nome |-> "Preco", path |-> <<"energia", "preco">>,
      baixo |-> I(2), alto |-> I(5)]}

MaxParams == 3

\* The sequences of at most n distinct elements of S.
SeqsOfDistinct(S, n) ==
    UNION {{q \in [1..k -> S] : \A a, b \in 1..k : a # b => q[a] # q[b]} :
           k \in 0..n}

\* abs(x).
NAbs(x) == IF Sign(x) < 0 THEN NNeg(x) ELSE x

\* The key of the sort with the sign of the delta kept.
signed_delta(r) == r.delta

\* Line 177: the key of the sort.
impact_key(r) == r.impacto_abs

\* list.sort(key=..., reverse=True): descending, elements of equal keys
\* in the order they had.
RECURSIVE sort_desc(_)
sort_desc(seq) ==
    IF seq = << >> THEN << >>
    ELSE LET front == sort_desc(SubSeq(seq, 1, Len(seq) - 1))
             x == seq[Len(seq)]
             k == Cardinality({a \in 1..Len(front) :
                                 NLe(impact_key(x), impact_key(front[a]))})
         IN  SubSeq(front, 1, k) \o <<x>> \o SubSeq(front, k + 1, Len(front))

\* Lines 115-142: tornado_lcoh is called.
CallTornado ==
    /\ pc = "idle"
    /\ \E parametros \in SeqsOfDistinct(TornadoParams, MaxParams) :
          loc' = [parametros |-> parametros, resultados |-> << >>,
                  lcoh_ref |-> None, c |-> None, calls |-> 0]
    /\ pc' = "tornado_lcoh"
    /\ ret' = None
    /\ UNCHANGED <<s, c>>

\* Lines 145-146: simular on cenario_base itself.
TornadoBase ==
    /\ pc = "tornado_lcoh"
    /\ loc.calls = 0
    /\ \E base_out \in {simular(cenario_at(c, 1))} :
           IF base_out.raised # ""
           THEN /\ pc' = "ended"
                /\ ret' = Raised(base_out.raised)
                /\ UNCHANGED loc
           ELSE /\ loc' = [loc EXCEPT !.lcoh_ref = base_out.out.lcoh,
                                      !.calls = 1]
                /\ UNCHANGED <<pc, ret>>
    /\ UNCHANGED <<s, c>>

\* Lines 148-174: one pass of the loop of tornado_lcoh.
TornadoStep ==
    /\ pc = "tornado_lcoh"
    /\ loc.calls > 0
    /\ Len(loc.resultados) < Len(loc.parametros)
    /\ \E p \in {loc.parametros[Len(loc.resultados) + 1]} :
       \E lo \in {variant(c, << <<p.path, p.baixo>> >>)} :
       \E hi \in {variant(lo.store, << <<p.path, p.alto>> >>)} :
           IF lo.raised # ""
           THEN /\ pc' = "ended"
                /\ ret' = Raised(lo.raised)
                /\ c' = lo.store
                /\ loc' = [loc EXCEPT !.c = lo.c]
           ELSE IF hi.raised # ""
           THEN /\ pc' = "ended"
                /\ ret' = Raised(hi.raised)
                /\ c' = hi.store
                /\ loc' = [loc EXCEPT !.c = hi.c]
           ELSE /\ c' = hi.store
                /\ loc' = [loc EXCEPT
                             !.resultados =
                                Append(@,
                                  [nome |-> p.nome,
                                   path |-> p.path,
                                   lcoh_referencia |-> loc.lcoh_ref,
                                   valor_baixo |-> p.baixo,
                                   lcoh_baixo |-> lo.out.lcoh,
                                   valor_alto |-> p.alto,
                                   lcoh_alto |-> hi.out.lcoh,
                                   delta |-> NSub(hi.out.lcoh, lo.out.lcoh),
                                   impacto_abs |->
                                      NAbs(NSub(hi.out.lcoh, lo.out.lcoh))]),
                             !.c = hi.c,
                             !.calls = @ + 2]
                /\ UNCHANGED <<pc, ret>>
    /\ UNCHANGED s

\* Lines 177-178: the sort and the return.
ReturnTornado ==
    /\ pc = "tornado_lcoh"
    /\ loc.calls > 0
    /\ Len(loc.resultados) = Len(loc.parametros)
    /\ ret' = Returned(sort_desc(loc.resultados))
    /\ pc' = "ended"
    /\ UNCHANGED <<s, c, loc>>

\* The curves of a spider: nome, path, valores.
SpiderDefs ==
    {[nome |-> "Preco Energia", path |-> <<"energia", "preco_mwh">>,
      valores |-> <<I(2), Q(1, 2)>>],
     [nome |-> "CAPEX", path |-> <<"capex", "eletrolisador_capex_por_kw">>,
      valores |-> <<I(5)>>],
     [nome |-> "Nada", path |-> <<"tarifa", "preco_mwh">>,
      valores |-> << >>]}

MaxDefs == 2

\* Lines 185-206: spider_multivariavel is called.
CallSpider ==
    /\ pc = "idle"
    /\ \E definicoes \in SeqsOfDistinct(SpiderDefs, MaxDefs) :
          loc' = [definicoes |-> definicoes, series |-> << >>,
                  resultados |-> << >>, c |-> None, calls |-> 0]
    /\ pc' = "spider_multivariavel"
    /\ ret' = None
    /\ UNCHANGED <<s, c>>

\* Whether a curve is left and, of it, a point.
point_pending(l) ==
    /\ Len(l.series) < Len(l.definicoes)
    /\ Len(l.resultados) < Len(l.definicoes[Len(l.series) + 1].valores)

\* Line 211 and lines 66-74: one pass of the loop of the sensibilidade_1d
\* that spider_multivariavel has called.
SpiderPoint ==
    /\ pc = "spider_multivariavel"
    /\ point_pending(loc)
    /\ \E d \in {loc.definicoes[Len(loc.series) + 1]} :
       \E v \in {d.valores[Len(loc.resultados) + 1]} :
       \E r \in {variant(c, << <<d.path, v>> >>)} :
           /\ c' = r.store
           /\ IF r.raised # ""
              THEN /\ pc' = "ended"
                   /\ ret' = Raised(r.raised)
                   /\ loc' = [loc EXCEPT !.c = r.c]
              ELSE /\ loc' = [loc EXCEPT
                                !.resultados =
                                    Append(@, [valor |-> v,
                                               lcoh |-> r.out.lcoh,
                                               h2_anual_kg |->
                                                   r.out.h2_anual_kg]),
                                !.c = r.c,
                                !.calls = @ + 1]
                   /\ UNCHANGED <<pc, ret>>
    /\ UNCHANGED s

\* Lines 207-212: sensibilidade_1d has returned the points of a curve.
SpiderSeries ==
    /\ pc = "spider_multivariavel"
    /\ Len(loc.series) < Len(loc.definicoes)
    /\ ~point_pending(loc)
    /\ LET d == loc.definicoes[Len(loc.series) + 1]
       IN  loc' = [loc EXCEPT
                     !.series = Append(@, [nome |-> d.nome, path |-> d.path,
                                           pontos |-> loc.resultados]),
                     !.resultados = << >>]
    /\ UNCHANGED <<pc, s, c, ret>>

\* Line 213.
ReturnSpider ==
    /\ pc = "spider_multivariavel"
    /\ Len(loc.series) = Len(loc.definicoes)
    /\ ret' = Returned([series |-> loc.series])
    /\ pc' = "ended"
    /\ UNCHANGED <<s, c, loc>>

\* float("nan"): a value no arithmetic of the model yields.
NaN == << <<0, 0, 0>> >>

\* The distributions: path, tipo and the two numbers of the tipo (media
\* and desvio, or min and max).  One tipo is not in lower case, one is not
\* supported, one distribution draws capacity factors above 1.
McDists ==
    {[path |-> <<"energia", "preco_mwh">>, tipo |-> "NORMAL",
      a |-> I(2), b |-> Q(1, 2)],
     [path |-> <<"fator_capacidade_anual">>, tipo |-> "uniforme",
      a |-> Q(1, 2), b |-> I(2)],
     [path |-> <<"energia", "preco_mwh">>, tipo |-> "triangular",
      a |-> I(2), b |-> I(5)]}

MaxDists == 2
MaxAmostras == 2

\* str.lower on the names of the distributions.
lower(tipo) ==
    IF tipo = "NORMAL" THEN "normal"
    ELSE IF tipo = "UNIFORME" THEN "uniforme"
    ELSE tipo

\* Lines 281-289: the values random.gauss(mu, sd) and
\* random.uniform(vmin, vmax) are drawn from, three of them.
draws(d) ==
    IF lower(d.tipo) = "normal"
    THEN <<NSub(d.a, d.b), d.a, NAdd(d.a, d.b)>>
    ELSE <<d.a, NDiv(NAdd(d.a, d.b), I(2)), d.b>>

supported(d) == lower(d.tipo) \in {"normal", "uniforme"}

\* Lines 274-296: one sample.  pick[k] names the value drawn for the k-th
\* distribution.  The distributions before the first unsupported one are
\* drawn and set; the unsupported one raises ValueError.
sample(store, distribuicoes, pick) ==
    LET bad == {k \in 1..Len(distribuicoes) : ~supported(distribuicoes[k])}
        n == IF bad = {} THEN Len(distribuicoes)
             ELSE (CHOOSE k \in bad : \A m \in bad : k <= m) - 1
        sets == [k \in 1..n |->
                    <<distribuicoes[k].path, draws(distribuicoes[k])[pick[k]]>>]
        r == variant(store, sets)
    IN  IF bad = {} \/ r.raised = "AttributeError" THEN r
        ELSE [r EXCEPT !.raised = "ValueError", !.out = None]

\* Lines 234-271: monte_carlo_lcoh is called.
CallMonteCarlo ==
    /\ pc = "idle"
    /\ \E distribuicoes \in SeqsOfDistinct(McDists, MaxDists),
          n_amostras \in -1..MaxAmostras :
          loc' = [distribuicoes |-> distribuicoes, n_amostras |-> n_amostras,
                  lcohs |-> << >>, c |-> None, calls |-> 0]
    /\ pc' = "monte_carlo_lcoh"
    /\ ret' = None
    /\ UNCHANGED <<s, c>>

\* Lines 273-296: one pass of the loop of monte_carlo_lcoh.
MonteCarloStep ==
    /\ pc = "monte_carlo_lcoh"
    /\ Len(loc.lcohs) < loc.n_amostras
    /\ \E pick \in [1..Len(loc.distribuicoes) -> 1..3] :
          \E r \in {sample(c, loc.distribuicoes, pick)} :
              /\ c' = r.store
              /\ IF r.raised # ""
                 THEN /\ pc' = "ended"
                      /\ ret' = Raised(r.raised)
                      /\ loc' = [loc EXCEPT !.c = r.c]
                 ELSE /\ loc' = [loc EXCEPT !.lcohs = Append(@, r.out.lcoh),
                                            !.c = r.c,
                                            !.calls = @ + 1]
                      /\ UNCHANGED <<pc, ret>>
    /\ UNCHANGED s

\* sorted(lcohs): ascending.
RECURSIVE sorted(_)
sorted(seq) ==
    IF seq = << >> THEN << >>
    ELSE LET front == sorted(SubSeq(seq, 1, Len(seq) - 1))
             x == seq[Len(seq)]
             k == Cardinality({a \in 1..Len(front) : NLe(front[a], x)})
         IN  SubSeq(front, 1, k) \o <<x>> \o SubSeq(front, k + 1, Len(front))

\* Lines 302-309: the percentile p of the sorted samples, NaN of none.
\* k = (n - 1) * p / 100, f = int(k), the sequence indexed from 1.
pct(lcohs_sorted, p) ==
    LET n == Len(lcohs_sorted)
        f == ((n - 1) * p) \div 100
        cidx == IF f + 1 < n - 1 THEN f + 1 ELSE n - 1
        frac == Q((n - 1) * p - 100 * f, 100)
    IN  IF n = 0 THEN NaN
        ELSE NAdd(NMul(lcohs_sorted[f + 1], NSub(I(1), frac)),
                  NMul(lcohs_sorted[cidx + 1], frac))

\* The statistics with -1 for the samples that are not there.
resumo_sem_sentinela(lcohs) ==
    LET lcohs_sorted == sorted(lcohs)
        n == Len(lcohs_sorted)
        of(v) == IF n = 0 THEN I(-1) ELSE v
    IN  [amostras |-> lcohs,
         min |-> of(lcohs_sorted[1]),
         max |-> of(lcohs_sorted[n]),
         media |-> of(NDiv(soma_valores([k \in 1..n |->
                                           [valor |-> lcohs_sorted[k]]]),
                           I(n))),
         p5 |-> of(pct(lcohs_sorted, 5)),
         p50 |-> of(pct(lcohs_sorted, 50)),
         p95 |-> of(pct(lcohs_sorted, 95))]

\* Lines 299-319: the statistics.
resumo(lcohs) ==
    LET lcohs_sorted == sorted(lcohs)
        n == Len(lcohs_sorted)
    IN  [amostras |-> lcohs,
         min |-> IF n # 0 THEN lcohs_sorted[1] ELSE NaN,
         max |-> IF n # 0 THEN lcohs_sorted[n] ELSE NaN,
         media |-> IF n # 0
                   THEN NDiv(soma_valores([k \in 1..n |->
                                             [valor |-> lcohs_sorted[k]]]),
                             I(n))
                   ELSE NaN,
         p5 |-> pct(lcohs_sorted, 5),
         p50 |-> pct(lcohs_sorted, 50),
         p95 |-> pct(lcohs_sorted, 95)]

\* Lines 299-321: the loop is over, the statistics are returned.
ReturnMonteCarlo ==
    /\ pc = "monte_carlo_lcoh"
    /\ Len(loc.lcohs) >= loc.n_amostras
    /\ ret' = Returned([n |-> Len(loc.lcohs), lcoh |-> resumo(loc.lcohs)])
    /\ pc' = "ended"
    /\ UNCHANGED <<s, c, loc>>

\* Lines 327-383: the caller has taken what the routine returned or raised
\* and is ready for its next call on the same cenario_base.
CallerGoesOn ==
    /\ pc = "ended"
    /\ pc' = "idle"
    /\ loc' = None
    /\ ret' = None
    /\ UNCHANGED <<s, c>>

InitSens ==
    /\ pc = "idle"
    /\ s \in SensBases
    /\ c = store_of(s)
    /\ loc = None
    /\ ret = None

NextSens ==
    \/ Call1d \/ Step1d \/ Return1d
    \/ Call2d \/ Step2d \/ Return2d
    \/ CallTornado \/ TornadoBase \/ TornadoStep \/ ReturnTornado
    \/ CallSpider \/ SpiderPoint \/ SpiderSeries \/ ReturnSpider
    \/ CallMonteCarlo \/ MonteCarloStep \/ ReturnMonteCarlo
    \/ CallerGoesOn

SpecSens == InitSens /\ [][NextSens]_vars

(***************************************************************************)
(* Two calls of simular or simulate_eho that run at once, each on its own  *)
(* scenario.  For the call i, pc[i] is where it stands, c[i] its argument, *)
(* s[i] the scenario its caller built, loc[i] its locals and ret[i] what   *)
(* it returned.                                                            *)
(***************************************************************************)

\* c.validar() with the factor brought into [0, 1] in the scenario itself.
after_validar_clamped(cen) ==
    [cen EXCEPT !.fator_capacidade_anual = NMax(Zero, NMin(@, I(1)))]

\* Lines 90-92 and 143: the scenario after c.validar(), which assigns
\* nothing.
after_validar(cen) == cen

\* Lines 142-181: a step of simular from the place pcv with the locals l.
tea_step(pcv, cen, l) ==
    IF pcv = "simular"
    THEN IF ~validar(cen)
         THEN [pc |-> "ValueError", loc |-> l, ret |-> None]
         ELSE LET itens_capex == calcular_capex(cen)
              IN  [pc |-> "producao",
                   loc |-> [itens_capex |-> itens_capex,
                            total_capex |->
                                valor_de(itens_capex, "Total CAPEX")],
                   ret |-> None]
    ELSE IF pcv = "producao"
    THEN LET h2_anual == producao_anual_kg(cen.eletrolisador,
                                           cen.fator_capacidade_anual,
                                           cen.horas_ano)
             ev == calcular_energia_var(cen, h2_anual)
         IN  [pc |-> "opex",
              loc |-> [itens_capex |-> l.itens_capex,
                       total_capex |-> l.total_capex,
                       h2_anual |-> h2_anual,
                       itens_energia |-> ev.itens_energia,
                       itens_var |-> ev.itens_var,
                       mwh_anual |-> ev.mwh_anual,
                       kwh_por_kg |-> ev.kwh_por_kg],
              ret |-> None]
    ELSE IF pcv = "opex"
    THEN LET itens_fixos == calcular_opex_fixo(cen, l.itens_capex)
         IN  [pc |-> "anualizar",
              loc |-> [itens_capex |-> l.itens_capex,
                       total_capex |-> l.total_capex,
                       h2_anual |-> l.h2_anual,
                       itens_energia |-> l.itens_energia,
                       itens_var |-> l.itens_var,
                       mwh_anual |-> l.mwh_anual,
                       kwh_por_kg |-> l.kwh_por_kg,
                       itens_fixos |-> itens_fixos,
                       custo_fixo |-> soma_valores(itens_fixos),
                       custo_variavel |-> soma_valores(l.itens_var),
                       reposicao_anual_equiv |-> reposicao_anual(cen)],
              ret |-> None]
    ELSE IF fator_recuperacao_capital_raises(
                cen.financiamento.wacc_real,
                cen.financiamento.vida_projeto_anos)
    THEN [pc |-> "ZeroDivisionError", loc |-> l, ret |-> None]
    ELSE [pc |-> "returned", loc |-> l, ret |-> << tea_result(cen, l) >>]

\* Lines 229-232 and 94-102: the locals at the head of the loop.
eho_begin(sc) ==
    LET op_hours == effective_hours(sc.ops)
        life == sc.economics.economic_life_years
        dur == sc.electrolyser.stack_durability_h
    IN  [op_hours |-> op_hours,
         n_repl |-> stack_replacements(life, op_hours, dur),
         total_hours |-> NMul(I(life), op_hours),
         repls |-> stack_replacements(life, op_hours, dur),
         sec_sum |-> Zero,
         hours_counted |-> Zero,
         hours_until_reset |-> dur,
         current_sec |-> sc.electrolyser.sec_start_kwh_per_kg,
         blocks |-> 0]

\* Lines 124-125 and 235-248: the locals once the loop is left.
eho_output(sc, l) ==
    LET e == sc.electrolyser
        avg_sec_el_kwh_kg == avg_sec(l)
        avg_sec_total_kwh_kg ==
            add_compression_to_sec(avg_sec_el_kwh_kg, e.compression_kwh_per_kg)
        cap_kg_h == capacity_kg_per_h(e.power_kw, avg_sec_total_kwh_kg)
        h2_total_kg ==
            hydrogen_output_kg(l.op_hours, cap_kg_h,
                               sc.economics.economic_life_years)
    IN  [op_hours |-> l.op_hours,
         n_repl |-> l.n_repl,
         avg_sec_el_kwh_kg |-> avg_sec_el_kwh_kg,
         avg_sec_total_kwh_kg |-> avg_sec_total_kwh_kg,
         cap_kg_h |-> cap_kg_h,
         h2_total_kg |-> h2_total_kg,
         elec_mwh |->
             electricity_consumption_mwh(h2_total_kg, avg_sec_total_kwh_kg)]

\* Lines 221-315: a step of simulate_eho from the place pcv with the
\* locals l.
eho_step(pcv, sc, l) ==
    IF pcv = "simulate_eho"
    THEN [pc |-> "while", loc |-> eho_begin(sc), ret |-> None]
    ELSE IF pcv = "while"
    THEN IF while_cond(l)
         THEN [pc |-> "while",
               loc |-> loop_body(l, sc.electrolyser.sec_start_kwh_per_kg,
                                 sc.electrolyser.degradation_pct_per_1000h,
                                 sc.electrolyser.stack_durability_h),
               ret |-> None]
         ELSE [pc |-> "capex", loc |-> eho_output(sc, l), ret |-> None]
    ELSE IF capex_raises(sc)
    THEN [pc |-> "ZeroDivisionError", loc |-> l, ret |-> None]
    ELSE [pc |-> "returned", loc |-> l, ret |-> << eho_result(sc, l) >>]

\* Lines 104-122: the locals when the loop is left.
RECURSIVE run_loop(_, _)
run_loop(sc, l) ==
    IF while_cond(l)
    THEN run_loop(sc, loop_body(l, sc.electrolyser.sec_start_kwh_per_kg,
                                sc.electrolyser.degradation_pct_per_1000h,
                                sc.electrolyser.stack_durability_h))
    ELSE l

\* Lines 221-315: simulate_eho as one call, the exception it ends with ("" for
\* none) and the result it returns.
simulate_eho(sc) ==
    IF capex_raises(sc) THEN [raised |-> "ZeroDivisionError", out |-> None]
    ELSE [raised |-> "",
          out |-> eho_result(sc, eho_output(sc, run_loop(sc, eho_begin(sc))))]

\* The scenarios of the calls: for simular a valid one, one whose factor is
\* above 1 and one whose recovery factor divides by zero; for simulate_eho
\* one of several blocks and resets, one of no hours and one of no years.
PureScenarios ==
    {[fn |-> "simular",
      arg |-> CenarioEntrada(Q(1, 2), <<I(2), I(4), 2>>, I(1), 2, Zero, 10)],
     [fn |-> "simular",
      arg |-> CenarioEntrada(Q(3, 2), <<I(2), I(4), 2>>, I(1), 2, Zero, 10)],
     [fn |-> "simular",
      arg |-> CenarioEntrada(I(1), <<I(2), I(4), 2>>, I(-2), 2, I(1), 10)],
     [fn |-> "simulate_eho",
      arg |-> EHOScenario(I(1500), I(2500), 2, I(1), I(100),
                          <<I(2), I(4), I(1)>>,
                          <<I(1), I(1), I(1), I(1), I(2)>>)],
     [fn |-> "simulate_eho",
      arg |-> EHOScenario(I(2500), Zero, 1, I(1), Zero,
                          <<I(2), I(4), I(1)>>,
                          <<Zero, Zero, Zero, Zero, Zero>>)],
     [fn |-> "simulate_eho",
      arg |-> EHOScenario(I(5000), I(1000), 0, Q(1, 2), Zero,
                          <<I(2), I(4), I(1)>>,
                          <<I(1), I(1), I(1), I(1), I(2)>>)]}

\* Where a call has ended.
Ended == {"returned", "ValueError", "ZeroDivisionError"}

\* The call i of simular takes a step.
PureTeaStep ==
    \E i \in 1..2 :
        /\ pc[i] \in {"simular", "producao", "opex", "anualizar"}
        /\ \E r \in {tea_step(pc[i], c[i], loc[i])} :
               /\ pc' = [pc EXCEPT ![i] = r.pc]
               /\ loc' = [loc EXCEPT ![i] = r.loc]
               /\ ret' = [ret EXCEPT ![i] = r.ret]
               /\ c' = [c EXCEPT ![i] =
                          IF pc[i] = "simular" THEN after_validar(@) ELSE @]
        /\ UNCHANGED s

\* The call i of simulate_eho takes a step.
PureEhoStep ==
    \E i \in 1..2 :
        /\ pc[i] \in {"simulate_eho", "while", "capex"}
        /\ \E r \in {eho_step(pc[i], c[i], loc[i])} :
               /\ pc' = [pc EXCEPT ![i] = r.pc]
               /\ loc' = [loc EXCEPT ![i] = r.loc]
               /\ ret' = [ret EXCEPT ![i] = r.ret]
        /\ UNCHANGED <<s, c>>

InitPure ==
    \E a \in PureScenarios, b \in PureScenarios :
        /\ pc = <<a.fn, b.fn>>
        /\ s = <<a.arg, b.arg>>
        /\ c = s
        /\ loc = <<None, None>>
        /\ ret = <<None, None>>

NextPure == PureTeaStep \/ PureEhoStep

SpecPure == InitPure /\ [][NextPure]_vars

(***************************************************************************)
(* _get_attr_dotted and _set_attr_dotted called on a scenario: c is the    *)
(* store that holds it at address 1, s the scenario before the call, loc   *)
(* the arguments, ret what the call returned.                              *)
(***************************************************************************)

\* The paths: of a leaf of a group, of a leaf of the scenario, of a group;
\* then of a leaf its group has not, of a group the scenario has not, of a
\* leaf the scenario has not, and two that go on below a leaf.
DottedPaths ==
    {<<"energia", "preco_mwh">>, <<"fator_capacidade_anual">>, <<"energia">>,
     <<"energia", "preco">>, <<"tarifa", "preco_mwh">>, <<"preco_mwh">>,
     <<"moeda", "x">>, <<"energia", "preco_mwh", "x">>}

GetAttrDotted ==
    /\ pc = "_get_attr_dotted"
    /\ LET r == _get_attr_dotted(c, 1, loc.dotted)
       IN  IF r.kind = "AttributeError"
           THEN pc' = "AttributeError" /\ ret' = None
           ELSE pc' = "returned" /\ ret' = << r >>
    /\ UNCHANGED <<s, c, loc>>

SetAttrDotted ==
    /\ pc = "_set_attr_dotted"
    /\ LET r == _set_attr_dotted(c, 1, loc.dotted, loc.value)
       IN  /\ c' = r.store
           /\ IF r.raised # ""
              THEN pc' = "AttributeError" /\ ret' = None
              ELSE pc' = "returned" /\ ret' = << None >>
    /\ UNCHANGED <<s, loc>>

InitPath ==
    /\ pc \in {"_get_attr_dotted", "_set_attr_dotted"}
    /\ s \in SensBases
    /\ c = store_of(s)
    /\ loc \in [dotted : DottedPaths, value : SensValues]
    /\ ret = None

NextPath == GetAttrDotted \/ SetAttrDotted

SpecPath == InitPath /\ [][NextPath]_vars

(***************************************************************************)
(* average_sec_kwh_per_kg_over_life called on its own: s holds the         *)
(* arguments, loc the locals of the loop and the number of times line 121  *)
(* has reset the SEC, ret the average returned.                            *)
(***************************************************************************)

MaxSecBlocks == 16

SecLives == {-1, 0, 1, 2, 3}
\* Hours per year: none, 5e-10, 750, 1000 and 2500.
SecHours == {Zero, QE(500, 1, -1), I(750), I(1000), I(2500)}
\* Durabilities above zero: 5e-10, 500, 1500, 2500 and 5000 hours.
SecDurabilities == {QE(500, 1, -1), I(500), I(1500), I(2500), I(5000)}
SecDegradations == {Zero, I(100)}

\* The horizon of a call.
horizon(a) == NMul(I(a.econ_years), a.op_hours_per_year)

\* The calls whose loop ends within MaxSecBlocks passes; a durability of
\* 5e-10 hours is kept for the horizons of at most one hour.
SecArgs ==
    {a \in [sec0 : {I(50)}, degr_pct_per_1000h : SecDegradations,
            econ_years : SecLives, op_hours_per_year : SecHours,
            durability_h : SecDurabilities] :
        NLt(a.durability_h, I(1)) => NLe(horizon(a), I(1))}

\* Lines 94-102: the locals before the loop.
SecBegin ==
    /\ pc = "average_sec_kwh_per_kg_over_life"
    /\ loc' = [total_hours |-> horizon(s),
               repls |-> stack_replacements(s.econ_years,
                                            s.op_hours_per_year,
                                            s.durability_h),
               sec_sum |-> Zero,
               hours_counted |-> Zero,
               hours_until_reset |-> s.durability_h,
               current_sec |-> s.sec0,
               blocks |-> 0,
               resets |-> 0]
    /\ pc' = "while"
    /\ UNCHANGED <<s, c, ret>>

\* Lines 104-122: one pass of the loop; resets counts the passes that end
\* in lines 121-122.
SecBlock ==
    /\ pc = "while"
    /\ while_cond(loc)
    /\ loc.blocks < MaxSecBlocks
    /\ loc' = [loop_body(loc, s.sec0, s.degr_pct_per_1000h, s.durability_h)
                  EXCEPT !.resets = IF stack_reset(loc) THEN @ + 1 ELSE @]
    /\ UNCHANGED <<pc, s, c, ret>>

\* Lines 124-125: the loop is left and the average returned.
SecReturn ==
    /\ pc = "while"
    /\ ~while_cond(loc)
    /\ ret' = << avg_sec(loc) >>
    /\ pc' = "returned"
    /\ UNCHANGED <<s, c, loc>>

InitSec ==
    /\ pc = "average_sec_kwh_per_kg_over_life"
    /\ s \in SecArgs
    /\ c = None
    /\ loc = None
    /\ ret = None

NextSec == SecBegin \/ SecBlock \/ SecReturn

SpecSec == InitSec /\ [][NextSec]_vars

(***************************************************************************)
(* Properties of simulate_eho                                              *)
(***************************************************************************)

\* The sum of the values of the record b over the names in S.
RECURSIVE SumOver(_, _)
SumOver(b, S) ==
    IF S = {} THEN Zero
    ELSE LET n == CHOOSE m \in S : TRUE
         IN  NAdd(b[n], SumOver(b, S \ {n}))

SevenTerms == {"capex", "electricity", "other_opex", "grid_fees", "taxes",
               "subsidies", "oxygen_revenues"}

\* C1: the lcoh_total of every result of simulate_eho is the sum of the
\* seven values of its breakdown, and the breakdown holds exactly those
\* seven terms, each on its own.
C1_TotalIsSumOfSevenTerms ==
    ret # None =>
        /\ DOMAIN ret[1].breakdown_eur_per_kg = SevenTerms
        /\ ret[1].lcoh_total = SumOver(ret[1].breakdown_eur_per_kg, SevenTerms)

\* A result all of whose seven terms are non-zero, two of them negative.
C1_Witness ==
    /\ ret # None
    /\ \A n \in SevenTerms \ {"subsidies", "oxygen_revenues"} :
            Sign(ret[1].breakdown_eur_per_kg[n]) > 0
    /\ Sign(ret[1].breakdown_eur_per_kg.subsidies) < 0
    /\ Sign(ret[1].breakdown_eur_per_kg.oxygen_revenues) < 0

\* Whether average_sec_kwh_per_kg_over_life has returned.
AverageReturned == pc \in {"capex", "returned", "ZeroDivisionError"}

\* C2: with degradation_pct_per_1000h = 0 the average SEC returned is
\* sec0, whatever the horizon and the durability.
C2_ZeroDegradationKeepsSec0 ==
    (AverageReturned /\ IsZero(s.electrolyser.degradation_pct_per_1000h))
        => loc.avg_sec_el_kwh_kg = s.electrolyser.sec_start_kwh_per_kg

\* floor(years * hours / durability).
FloorOfRatio(years, hours, durability) ==
    NFloor(NDiv(NMul(I(years), hours), durability))

\* C3, as claimed: the count reported is floor(economic_life_years *
\* operating_hours_per_year / stack_durability_h) for every positive
\* durability, whatever the availability.
C3_CountFromNominalHours ==
    (ret # None /\ Sign(s.electrolyser.stack_durability_h) > 0)
        => ret[1].lifetime_totals.Stack_replacements
             = FloorOfRatio(s.economics.economic_life_years,
                            s.ops.operating_hours_per_year,
                            s.electrolyser.stack_durability_h)

\* C3, amended: the count reported is floor(economic_life_years *
\* (operating_hours_per_year * availability) / stack_durability_h) for
\* every durability of at least 1e-12.
C3_CountFromEffectiveHours ==
    (ret # None /\ NLe(Eps, s.electrolyser.stack_durability_h))
        => ret[1].lifetime_totals.Stack_replacements
             = FloorOfRatio(s.economics.economic_life_years,
                            NMul(s.ops.operating_hours_per_year,
                                 s.ops.availability),
                            s.electrolyser.stack_durability_h)

\* A result whose count is positive and is not the one of the nominal
\* hours: the availability has decided it.
C3_Witness ==
    /\ ret # None
    /\ NLe(Eps, s.electrolyser.stack_durability_h)
    /\ s.ops.availability = Q(1, 2)
    /\ Sign(ret[1].lifetime_totals.Stack_replacements) > 0
    /\ ret[1].lifetime_totals.Stack_replacements
         # FloorOfRatio(s.economics.economic_life_years,
                        s.ops.operating_hours_per_year,
                        s.electrolyser.stack_durability_h)

\* Whether every numeric input of the scenario is non-negative.
NonNegativeInputs(sc) ==
    /\ \A g \in {"electrolyser", "capex", "subs", "ops"} :
          \A f \in DOMAIN sc[g] : Sign(sc[g][f]) >= 0
    /\ \A f \in DOMAIN sc.economics \ {"economic_life_years"} :
          Sign(sc.economics[f]) >= 0
    /\ sc.economics.economic_life_years >= 0

\* C5: in every result made from non-negative inputs, the subsidies and
\* the oxygen revenue contributions are at most zero.
C5_SubsidiesAndOxygenReduceCost ==
    (ret # None /\ NonNegativeInputs(s))
        => /\ Sign(ret[1].breakdown_eur_per_kg.subsidies) <= 0
           /\ Sign(ret[1].breakdown_eur_per_kg.oxygen_revenues) <= 0

\* A result made from non-negative inputs whose subsidies and oxygen
\* revenue are both negative and drive the total below zero.
C5_Witness ==
    /\ ret # None
    /\ NonNegativeInputs(s)
    /\ Sign(ret[1].breakdown_eur_per_kg.subsidies) < 0
    /\ Sign(ret[1].breakdown_eur_per_kg.oxygen_revenues) < 0
    /\ Sign(ret[1].lcoh_total) < 0

\* Whether a pass of the loop body leaves every variable of the loop as it
\* was: the loop then never ends.
LoopStuck ==
    /\ pc = "while"
    /\ while_cond(loc)
    /\ LET l == loop_body(loc, s.electrolyser.sec_start_kwh_per_kg,
                          s.electrolyser.degradation_pct_per_1000h,
                          s.electrolyser.stack_durability_h)
       IN  /\ l.hours_counted = loc.hours_counted
           /\ l.hours_until_reset = loc.hours_until_reset
           /\ l.current_sec = loc.current_sec
           /\ l.sec_sum = loc.sec_sum

\* C6: simulate_eho raises no arithmetic error and its loop never stops
\* advancing, zero and negative durabilities and lives included.
C6_NeverRaisesAlwaysFinishes ==
    /\ pc # "ZeroDivisionError"
    /\ ~LoopStuck

(***************************************************************************)
(* Properties of simular                                                   *)
(***************************************************************************)

\* C7: once simular has taken its first step, a capacity factor outside
\* [0, 1] has ended it in ValueError with nothing computed and nothing
\* returned, and a capacity factor inside [0, 1], bounds included, has
\* passed validation.
C7_ValidationComesFirst ==
    pc # "simular" =>
        IF /\ NLe(Zero, c.fator_capacidade_anual)
           /\ NLe(c.fator_capacidade_anual, I(1))
        THEN pc # "ValueError" /\ "itens_capex" \in DOMAIN loc
        ELSE pc = "ValueError" /\ loc = None /\ ret = None

\* A call ended by the validation of a capacity factor above 1.
C7_Witness ==
    /\ pc = "ValueError"
    /\ NLt(I(1), c.fator_capacidade_anual)

\* C8: with a capacity factor in [0, 1], simular raises no arithmetic
\* error.
C8_NoArithmeticError ==
    validar(c) => pc # "ZeroDivisionError"

\* The number of items of the list named nome.
Ocorrencias(itens, nome) ==
    Cardinality({i \in 1..Len(itens) : itens[i].nome = nome})

\* lcoh * h2_anual_kg is the annualised Total CAPEX plus the fixed and
\* the variable costs returned, the stack reserve among the latter once.
CostIdentity(r) ==
    /\ NMul(r.lcoh, r.h2_anual_kg)
         = NAdd(NAdd(anualizar_capex(valor_de(r.capex, "Total CAPEX"),
                                     c.financiamento.wacc_real,
                                     c.financiamento.vida_projeto_anos),
                     soma_valores(r.opex_fixo)),
                soma_valores(r.opex_variavel))
    /\ Ocorrencias(r.opex_variavel, "Reposicao Stack (anual eq.)") = 1
    /\ \E i \in 1..Len(r.opex_variavel) :
          /\ r.opex_variavel[i].nome = "Reposicao Stack (anual eq.)"
          /\ r.opex_variavel[i].valor = reposicao_anual(c)

\* C10, as claimed: the identity holds of every result with a positive
\* annual production.
C10_IdentityForPositiveProduction ==
    (ret # None /\ Sign(ret[1].h2_anual_kg) > 0) => CostIdentity(ret[1])

\* C10, amended: the identity holds of every result with an annual
\* production of at least 1e-12 kg.
C10_IdentityAboveFloor ==
    (ret # None /\ NLe(Eps, ret[1].h2_anual_kg)) => CostIdentity(ret[1])

\* A result with a production above the floor and a stack reserve that
\* costs something.
C10_Witness ==
    /\ ret # None
    /\ NLe(Eps, ret[1].h2_anual_kg)
    /\ Sign(reposicao_anual(c)) > 0
    /\ Sign(ret[1].lcoh) > 0

(***************************************************************************)
(* Properties of the pure functions                                        *)
(***************************************************************************)

\* Whether the last call had a longer life than the one before, the other
\* arguments the same; whether it had a longer-lived stack.
LifeGrew ==
    /\ Len(ret) = 2
    /\ ret[2].args.econ_years > ret[1].args.econ_years
    /\ ret[2].args.durability_h = ret[1].args.durability_h
DurabilityGrew ==
    /\ Len(ret) = 2
    /\ NLt(ret[1].args.durability_h, ret[2].args.durability_h)
    /\ ret[2].args.econ_years = ret[1].args.econ_years

\* More years never give fewer replacements when the hours per year are
\* not negative.
MonotoneInLife ==
    (LifeGrew /\ Sign(loc.op_hours_per_year) >= 0)
        => NLe(ret[1].count, ret[2].count)

\* C4, as claimed: more years never give fewer replacements when the
\* hours per year are not negative, and a longer-lived stack never gives
\* more replacements, whatever the life and the hours.
C4_Monotone ==
    /\ MonotoneInLife
    /\ DurabilityGrew => NLe(ret[2].count, ret[1].count)

\* C4, amended: a longer-lived stack never gives more replacements when
\* the horizon, economic life times hours per year, is not negative.
C4_MonotoneOnNonNegativeHorizon ==
    /\ MonotoneInLife
    /\ (DurabilityGrew
          /\ Sign(NMul(I(loc.econ_years), loc.op_hours_per_year)) >= 0)
        => NLe(ret[2].count, ret[1].count)

\* Over a positive horizon of 3 years a longer-lived stack, both
\* durabilities above the floor, has given strictly fewer replacements.
C4_Witness ==
    /\ DurabilityGrew
    /\ loc.econ_years = 3
    /\ Sign(loc.op_hours_per_year) > 0
    /\ NLe(Eps, ret[1].args.durability_h)
    /\ NLt(ret[2].count, ret[1].count)

\* C9: both factors are 1 when periods <= 0 and 1/periods when the rate
\* is 0 and periods > 0, and on the same arguments the two functions end
\* the same way: the same exception or the same value.
C9_SameCapitalRecoveryFactor ==
    /\ \A k \in 1..Len(ret) :
          /\ loc.n <= 0 => (~ret[k].raised /\ ret[k].value = I(1))
          /\ (IsZero(loc.i) /\ loc.n > 0)
                => (~ret[k].raised /\ ret[k].value = Q(1, loc.n))
    /\ Len(ret) = 2
          => (ret[1].raised = ret[2].raised /\ ret[1].value = ret[2].value)

\* Both functions have returned the factor 1/2 * 9/4 / (9/4 - 1) = 9/10 of
\* the rate 1/2 over 2 periods.
C9_Witness ==
    /\ Len(ret) = 2
    /\ loc.i = Q(1, 2)
    /\ loc.n = 2
    /\ ret[1].value = Q(9, 10)
    /\ ret[2].value = Q(9, 10)

(***************************************************************************)
(* Properties of calcular_capex                                            *)
(***************************************************************************)

\* The names of the CAPEX lines, in the order of the source.
CapexNames ==
    << "Eletrolisador", "Balance of Plant", "Interconexao", "Compressor",
       "Armazenamento Buffer", "Tratamento Agua", "Instalacao/EPC",
       "Custos do Dono", "Contingencia", "Total CAPEX" >>

\* Whether calcular_capex has returned its list to simular.
CapexComputed ==
    pc \in {"producao", "opex", "anualizar", "returned", "ZeroDivisionError"}
        /\ c # None

\* C11: the list calcular_capex returns has the ten lines Electrolyser,
\* Balance of Plant, Interconnection, Compressor, Storage Buffer, Water
\* Treatment, Installation/EPC, Owner's Costs, Contingency, Total CAPEX in
\* this order; one line only is named Total CAPEX, the last, and its value
\* is the sum of the nine before it.
C11_TenLinesAndTheirTotal ==
    CapexComputed =>
        /\ Len(loc.itens_capex) = 10
        /\ \A i \in 1..10 : loc.itens_capex[i].nome = CapexNames[i]
        /\ Ocorrencias(loc.itens_capex, "Total CAPEX") = 1
        /\ loc.itens_capex[10].valor
             = soma_valores(SubSeq(loc.itens_capex, 1, 9))
        /\ loc.total_capex = loc.itens_capex[10].valor

\* A list all of whose ten lines cost something, returned in a result.
C11_Witness ==
    /\ pc = "returned"
    /\ c # None
    /\ \A i \in 1..10 : Sign(loc.itens_capex[i].valor) > 0
    /\ ret[1].capex = loc.itens_capex

(***************************************************************************)
(* Properties of the sensitivity routines                                  *)
(***************************************************************************)

\* Whether the routine whose locals have the field named has just
\* returned a value.
HasReturned(field) ==
    /\ pc = "ended"
    /\ field \in DOMAIN loc
    /\ ret # None
    /\ ret.raised = ""

\* C12: the grid sensibilidade_2d returns has |X| x |Y| points, one call
\* of simular each, and the point at index i*|Y| + j, counted from 0, has
\* x = X[i] and y = Y[j]: X is the outer loop, Y the inner one.
C12_GridIsRowMajor ==
    HasReturned("grid") =>
        LET X == loc.valores_x
            Y == loc.valores_y
            grid == ret.value.grid
        IN  /\ Len(grid) = Len(X) * Len(Y)
            /\ loc.calls = Len(X) * Len(Y)
            /\ \A i \in 0..(Len(X) - 1), j \in 0..(Len(Y) - 1) :
                  /\ grid[i * Len(Y) + j + 1].x = X[i + 1]
                  /\ grid[i * Len(Y) + j + 1].y = Y[j + 1]

\* A grid of 2 x 3 points has been returned.
C12_Witness ==
    /\ HasReturned("grid")
    /\ Len(loc.valores_x) = 2
    /\ Len(loc.valores_y) = 3
    /\ Len(ret.value.grid) = 6
    /\ loc.param_x # loc.param_y

\* |lcoh_alto - lcoh_baixo| of an entry of the tornado.
AbsDelta(e) == NAbs(NSub(e.lcoh_alto, e.lcoh_baixo))

\* Whether the entry e reports the parameter p.
EntryOf(e, p) ==
    /\ e.nome = p.nome
    /\ e.path = p.path
    /\ e.valor_baixo = p.baixo
    /\ e.valor_alto = p.alto

\* C13: tornado_lcoh returns one entry for each parameter it was given, a
\* permutation of them, and |lcoh_alto - lcoh_baixo| never increases from
\* an entry to the next, whatever the order of the parameters.
C13_TornadoSortedByAbsDelta ==
    HasReturned("parametros") =>
        LET P == loc.parametros
            R == ret.value
        IN  /\ Len(R) = Len(P)
            /\ \E f \in [1..Len(P) -> 1..Len(R)] :
                  /\ \A a, b \in 1..Len(P) : a # b => f[a] # f[b]
                  /\ \A a \in 1..Len(P) : EntryOf(R[f[a]], P[a])
            /\ \A k \in 1..(Len(R) - 1) : NLe(AbsDelta(R[k + 1]), AbsDelta(R[k]))

\* Three entries have been returned in another order than the parameters
\* had: the first has a negative delta, larger in absolute value than the
\* positive delta of the second.
C13_Witness ==
    /\ HasReturned("parametros")
    /\ Len(ret.value) = 3
    /\ ret.value[1].nome # loc.parametros[1].nome
    /\ Sign(ret.value[1].delta) < 0
    /\ Sign(ret.value[2].delta) > 0
    /\ NLt(AbsDelta(ret.value[2]), AbsDelta(ret.value[1]))

\* Whether monte_carlo_lcoh has ended, by a return or an exception.
MonteCarloEnded == pc = "ended" /\ "lcohs" \in DOMAIN loc /\ ret # None

\* C14: monte_carlo_lcoh with n_amostras <= 0 calls simular not once,
\* raises nothing and returns n = 0, no samples, and NaN for min, max,
\* media, p5, p50 and p95.
C14_NoSamplesGiveNaN ==
    (MonteCarloEnded /\ loc.n_amostras <= 0) =>
        /\ ret.raised = ""
        /\ loc.calls = 0
        /\ ret.value.n = 0
        /\ ret.value.lcoh.amostras = << >>
        /\ \A st \in {"min", "max", "media", "p5", "p50", "p95"} :
              ret.value.lcoh[st] = NaN

\* monte_carlo_lcoh has returned from a call with n_amostras = 0 and two
\* distributions, one of a tipo that a sample would have refused.
C14_Witness ==
    /\ MonteCarloEnded
    /\ loc.n_amostras = 0
    /\ Len(loc.distribuicoes) = 2
    /\ \E k \in 1..2 : ~supported(loc.distribuicoes[k])
    /\ ret.value.n = 0

\* Whether the scenario v has every field of the scenario b, in its groups
\* too, with the value it has in b, but for the leaves the paths name, and
\* has no other field than b has and the paths name.
DiffersOnlyAt(v, b, paths) ==
    /\ \A f \in DOMAIN b :
          /\ f \in DOMAIN v
          /\ IF f \in Groups
             THEN /\ \A leaf \in DOMAIN b[f] :
                        /\ leaf \in DOMAIN v[f]
                        /\ <<f, leaf>> \notin paths => v[f][leaf] = b[f][leaf]
                  /\ \A leaf \in DOMAIN v[f] \ DOMAIN b[f] :
                        <<f, leaf>> \in paths
             ELSE <<f>> \notin paths => v[f] = b[f]
    /\ \A f \in DOMAIN v \ DOMAIN b : <<f>> \in paths

\* The scenario a routine hands to simular after the attributes of sets
\* have been set on a clone of cenario_base, and the store left.
VariantMade(sets) ==
    LET cl == _clone_cenario(c, 1)
        st == set_all(cl.store, cl.at, sets)
    IN  [raised |-> st.raised,
         c |-> cenario_at(st.store, cl.at),
         store |-> base_objects(st.store)]

\* The one and two attributes a routine may set on a clone.
SetsTried ==
    {<< <<p, I(5)>> >> : p \in SensPaths}
        \cup {<< <<p, I(5)>>, <<q, I(2)>> >> : p \in SensPaths, q \in SensPaths}

\* The paths sensibilidade_1d or sensibilidade_2d has set on the clone c
\* of its last pass.
PathsOfPass ==
    IF "grid" \in DOMAIN loc THEN {loc.param_x, loc.param_y}
    ELSE {loc.parametro}

\* C15: whatever routines have run, cenario_base and its groups hold what
\* they held at first, no field changed and none added; the clone a pass
\* of sensibilidade_1d or sensibilidade_2d has made differs from it in the
\* leaves of the paths set and in nothing else, and so does every clone
\* that setting one or two attributes makes.
C15_BaseUntouchedVariantsDifferAtLeaf ==
    /\ c = store_of(s)
    /\ cenario_at(c, 1) = s
    /\ (("grid" \in DOMAIN loc \/ "valores" \in DOMAIN loc) /\ loc.c # None)
          => DiffersOnlyAt(loc.c, s, PathsOfPass)
    /\ \A sets \in SetsTried :
          LET r == VariantMade(sets)
          IN  /\ r.store = c
              /\ r.raised = ""
                    => DiffersOnlyAt(r.c, s, {sets[k][1] : k \in 1..Len(sets)})

\* sensibilidade_2d has made more than one pass, and the clone of its last
\* pass has another electricity price and another CAPEX per kW than
\* cenario_base, which has kept its own.
C15_Witness ==
    /\ "grid" \in DOMAIN loc
    /\ loc.calls > 1
    /\ loc.c # None
    /\ loc.c.energia.preco_mwh # s.energia.preco_mwh
    /\ loc.c.capex.eletrolisador_capex_por_kw
         # s.capex.eletrolisador_capex_por_kw
    /\ cenario_at(c, 1).energia.preco_mwh = s.energia.preco_mwh

(***************************************************************************)
(* Properties of calls that run at once                                    *)
(***************************************************************************)

\* What the call i ends with when it runs alone on the scenario its
\* caller built.
Alone(i) ==
    IF "moeda" \in DOMAIN s[i] THEN simular(s[i]) ELSE simulate_eho(s[i])

NamesField(b, path) ==
    \/ Len(path) = 1 /\ path[1] \in DOMAIN b
    \/ /\ Len(path) = 2
       /\ path[1] \in Groups \cap DOMAIN b
       /\ path[2] \in DOMAIN b[path[1]]

\* C17: a call of _get_attr_dotted or _set_attr_dotted with a path that
\* names no field of the scenario ends in an error and leaves the scenario
\* as it was, no field changed and none added.
C17_UnknownPathsRejected ==
    (pc \in {"returned", "AttributeError"} /\ "dotted" \in DOMAIN loc
        /\ ~NamesField(s, loc.dotted))
        => (pc = "AttributeError" /\ c = store_of(s))

(***************************************************************************)
(* Properties of average_sec_kwh_per_kg_over_life                          *)
(***************************************************************************)

\* The length of the block a pass of the loop has just processed.
BlockLength == NSub(loc'.hours_counted, loc.hours_counted)

\* Every pass of the loop processes a block of more than zero and at most
\* 1000 hours, that ends no later than the stack's reset and no later than
\* the horizon.
BlocksStayWithinBounds ==
    [][(pc = "while" /\ pc' = "while") =>
          /\ Sign(BlockLength) > 0
          /\ NLe(BlockLength, I(1000))
          /\ NLe(BlockLength, loc.hours_until_reset)
          /\ NLe(loc'.hours_counted, loc.total_hours)]_vars

\* The call has returned and its horizon was not negative.
ReturnedFromHorizon == pc = "returned" /\ Sign(loc.total_hours) >= 0

\* The passes a call can make at most: one for each whole 1000 hours of the
\* horizon, one for each stack the horizon uses up, and a last one.
MostPasses ==
    NAdd(NAdd(NFloor(NDiv(loc.total_hours, I(1000))), loc.repls), I(1))

\* The loop ends: while it runs on a horizon that is not negative it has
\* made no more than MostPasses passes, and when it stands at line 104 with
\* MaxSecBlocks passes made it leaves.
LoopEnds ==
    [](pc = "while" =>
          /\ Sign(loc.total_hours) >= 0 => NLe(I(loc.blocks), MostPasses)
          /\ loc.blocks = MaxSecBlocks => ~while_cond(loc))

Replacements ==
    stack_replacements(s.econ_years, s.op_hours_per_year, s.durability_h)

\* Whether x is a whole number.
Whole(x) == NFloor(x) = x

\* The horizon is one stack's hours or more, and a whole number of stacks.
HorizonIsMultiple ==
    /\ Sign(Replacements) > 0
    /\ NMul(Replacements, s.durability_h) = loc.total_hours

====
